---------------------------- MODULE Spec2Model ----------------------------
(***************************************************************************)
(* Labeling pipeline of the visual-testing repository: the response        *)
(* parsers, the class-name and bounding-box normalizers and the label      *)
(* writers of services/detector/autoLabel.py and                            *)
(* services/detector/auto_label_poker.py.                                   *)
(*                                                                         *)
(* Text is modelled as sequences of one-character strings (class names)    *)
(* or of lexical tokens (model responses).  Fractions read from a model    *)
(* response are integers in units of 1e-7; the fields of a written label   *)
(* line are integers in units of 1e-6, which is exactly what the text      *)
(* "%.6f" of a line carries.                                                *)
(***************************************************************************)
EXTENDS Integers, Sequences, FiniteSets, TLC

VARIABLES
    \* ---- normalizer harness (convert_to_yolo / convert_to_yolo_format)
    cbefore,    \* detections preceding the detection under study
    cdet,       \* the detection under study
    cafter,     \* detections following it
    cimg,       \* <<img_width, img_height>> of the image (pixel mode)
    ctie,       \* direction in which "%.6f" resolves a decimal tie
    cpc,        \* "input", "doneA" (autoLabel), "doneP" (auto_label_poker)
    cout,       \* result: [raised |-> BOOLEAN, lines |-> Seq(label line)]
    cfile       \* the label file of the image: [st, text, read]

convVars == <<cbefore, cdet, cafter, cimg, ctie, cpc, cout, cfile>>

VARIABLES
    \* ---- parser harness (parse_vlm_response / parse_llm_response)
    presp,      \* the response text, a sequence of lexical tokens
    ppc,        \* "input", "vlm" (parse_vlm_response), "llm" (parse_llm_response)
    pres        \* what the parser did: [raised, stage, val]

parseVars == <<presp, ppc, pres>>

VARIABLES
    \* ---- template labelers (fastLabel.py / fastLabel_rive.py), one image
    tparent,    \* directory the script lies in (Path(__file__).parent)
    tname,      \* file name of the image
    tpc,        \* "input", "fast" (fastLabel), "rive" (fastLabel_rive)
    tout        \* [type |-> classify_image(...), labels |-> lines written]

templVars == <<tparent, tname, tpc, tout>>

VARIABLES
    \* ---- the three services (detector, sam3, dinov3), one process each
    handle,     \* service -> "unloaded" (None), "loaded", "mock"
    loads,      \* service -> number of attempts to load the model
    nreq,       \* requests handled so far
    last,       \* the last request and its answer
    tmpdir      \* the temporary files on disk (tempfile.NamedTemporaryFile)

svcVars == <<handle, loads, nreq, last, tmpdir>>

VARIABLES
    \* ---- batch labeling runs (main / process_image of both scripts)
    labels,     \* training_data/poker_labels: image stem -> label file
    tool,       \* script of the current run: "none", "autoLabel", "auto_label_poker"
    pc,         \* "idle", "loop", "done" (summary printed), "aborted", "exited"
    idx,        \* position of the next image in the image list
    runs,       \* runs started so far
    modelCalls, \* requests posted to the model server so far
    ret,        \* what process_image returned for each image of this run
    zero,       \* images of this run whose model call gave no detections
    labeled,    \* autoLabel main: counters of the summary
    skipped,
    empty,
    total_detections,
    processed,  \* auto_label_poker main: counters of the summary
    total_labels,
    \* ---- the dataset directories under training_data
    rlabels,    \* rive_poker_labels: image stem -> label file
    classes_txt,\* dataset -> classes.txt of its labels directory
    copies,     \* dataset -> the .txt files in its images directory
    configs,    \* the dataset configs (yaml) that exist
    told        \* dataset -> "no", "told" (its training script named the
                \* labeling script to run), "labeled" (that script then ran)

dataVars == <<rlabels, classes_txt, copies, configs, told>>

pipeVars == <<labels, tool, pc, idx, runs, modelCalls, ret, zero, labeled,
              skipped, empty, total_detections, processed, total_labels,
              dataVars>>

VARIABLES
    \* ---- the entry point of train_poker.py (validate_labels, train_yolo)
    argv,       \* sys.argv[1:], the arguments of the command line
    ldir,       \* training_data/poker_labels: image stem -> text of its file
    lclasses,   \* classes.txt of that directory
    lyaml,      \* training_data/poker_data.yaml exists
    lcopies,    \* the label files in training_data/poker_images
    calls,      \* the functions called so far, in order
    vret,       \* what validate_labels counted: [valid, invalid]
    mpc         \* "start", "validated", "training", "exited", "end", "off"

trainVars == <<argv, ldir, lclasses, lyaml, lcopies, calls, vret, mpc>>

VARIABLES
    \* ---- train_card_detector.py generate_training_image, one call
    num_cards,    \* cards to place
    card_names,   \* the names the cards are chosen from
    done_cards,   \* iterations of the outer loop finished so far
    card_img,     \* <<width, height>> of the augmented card being placed
    card_class,   \* CARD_CLASSES[card_name] of that card
    attempts,     \* placement attempts made for that card
    placed_rects, \* the rectangles (x1, y1, x2, y2) placed so far
    card_labels,  \* the labels emitted so far
    outcome,      \* per finished iteration: "missing", "placed", "skipped"
    gpc           \* "cards", "placing", "returned", "raised", "off"

genVars == <<num_cards, card_names, done_cards, card_img, card_class, attempts,
             placed_rects, card_labels, outcome, gpc>>

toolVars == <<trainVars, genVars>>

-----------------------------------------------------------------------------
(* Bounds of the model *)

\* longest list of neighbouring detections placed before / after the one
\* detection whose fields range over the full sample product
MaxCtx == 1

\* longest response text of the parser harness, in pieces
MaxPieces == 3

\* requests sent to the services in one history
MaxRequests == 2

\* images in training_data/poker_images
NumImages == 2

\* labeling runs in one history
MaxRuns == 4

\* lines of the label file whose text ranges over all sample lines
MaxLines == 2

\* the background of a generated training image, in cells of 160 pixels
\* (640 x 960 in the script)
GridWidth == 4
GridHeight == 5

\* most cards asked of generate_training_image (7 in the script)
MaxCards == 3

-----------------------------------------------------------------------------
(* Characters and class names *)

UpperLower ==
    ("A" :> "a") @@ ("B" :> "b") @@ ("C" :> "c") @@ ("D" :> "d") @@
    ("E" :> "e") @@ ("F" :> "f") @@ ("G" :> "g") @@ ("H" :> "h") @@
    ("I" :> "i") @@ ("J" :> "j") @@ ("K" :> "k") @@ ("L" :> "l") @@
    ("M" :> "m") @@ ("N" :> "n") @@ ("O" :> "o") @@ ("P" :> "p") @@
    ("Q" :> "q") @@ ("R" :> "r") @@ ("S" :> "s") @@ ("T" :> "t") @@
    ("U" :> "u") @@ ("V" :> "v") @@ ("W" :> "w") @@ ("X" :> "x") @@
    ("Y" :> "y") @@ ("Z" :> "z")

\* str.lower()
Lower(s) == [i \in 1..Len(s) |->
                IF s[i] \in DOMAIN UpperLower THEN UpperLower[s[i]] ELSE s[i]]

\* str.replace(" ", "_")
ReplaceSpace(s) == [i \in 1..Len(s) |-> IF s[i] = " " THEN "_" ELSE s[i]]

\* sub in s
Contains(sub, s) ==
    \E i \in 1..(Len(s) - Len(sub) + 1) : SubSeq(s, i, i + Len(sub) - 1) = sub

s_btn_fold       == <<"b","t","n","_","f","o","l","d">>
s_btn_check_call == <<"b","t","n","_","c","h","e","c","k","_","c","a","l","l">>
s_btn_raise      == <<"b","t","n","_","r","a","i","s","e">>
s_btn_all_in     == <<"b","t","n","_","a","l","l","_","i","n">>
s_btn_deal_again == <<"b","t","n","_","d","e","a","l","_","a","g","a","i","n">>
s_winner_banner  == <<"w","i","n","n","e","r","_","b","a","n","n","e","r">>
s_hole_card      == <<"h","o","l","e","_","c","a","r","d">>
s_board_card     == <<"b","o","a","r","d","_","c","a","r","d">>
s_pot_amount     == <<"p","o","t","_","a","m","o","u","n","t">>
s_card_back      == <<"c","a","r","d","_","b","a","c","k">>
s_bet_slider     == <<"b","e","t","_","s","l","i","d","e","r">>
s_button         == <<"b","u","t","t","o","n">>
s_card_face      == <<"c","a","r","d","_","f","a","c","e">>
s_chip_stack     == <<"c","h","i","p","_","s","t","a","c","k">>
s_pot_display    == <<"p","o","t","_","d","i","s","p","l","a","y">>
s_player_badge   == <<"p","l","a","y","e","r","_","b","a","d","g","e">>
s_slider         == <<"s","l","i","d","e","r">>
s_community_area == <<"c","o","m","m","u","n","i","t","y","_","a","r","e","a">>
s_text_label     == <<"t","e","x","t","_","l","a","b","e","l">>

\* substrings tested by the class-name rules of convert_to_yolo
k_check == <<"c","h","e","c","k">>
k_call == <<"c","a","l","l">>
k_fold == <<"f","o","l","d">>
k_raise == <<"r","a","i","s","e">>
k_all == <<"a","l","l">>
k_in == <<"i","n">>
k_deal == <<"d","e","a","l">>
k_winner == <<"w","i","n","n","e","r">>
k_banner == <<"b","a","n","n","e","r">>
k_hole == <<"h","o","l","e">>
k_board == <<"b","o","a","r","d">>
k_community == <<"c","o","m","m","u","n","i","t","y">>
k_pot == <<"p","o","t">>
k_back == <<"b","a","c","k">>
k_slider == <<"s","l","i","d","e","r">>

\* autoLabel.py CLASSES
CLASSES ==
    (s_btn_fold :> 0) @@ (s_btn_check_call :> 1) @@ (s_btn_raise :> 2) @@
    (s_btn_all_in :> 3) @@ (s_btn_deal_again :> 4) @@ (s_winner_banner :> 5) @@
    (s_hole_card :> 6) @@ (s_board_card :> 7) @@ (s_pot_amount :> 8) @@
    (s_card_back :> 9) @@ (s_bet_slider :> 10)

\* auto_label_poker.py CLASSES
POKER_UI_CLASSES ==
    (s_button :> 0) @@ (s_card_face :> 1) @@ (s_card_back :> 2) @@
    (s_chip_stack :> 3) @@ (s_pot_display :> 4) @@ (s_player_badge :> 5) @@
    (s_slider :> 6) @@ (s_community_area :> 7) @@ (s_winner_banner :> 8) @@
    (s_text_label :> 9)

\* the chain without the "call" alternative of its first rule
HandleVariations_nocall(n) ==
    IF Contains(k_check, n) THEN s_btn_check_call
    ELSE IF Contains(k_fold, n) THEN s_btn_fold
    ELSE IF Contains(k_raise, n) THEN s_btn_raise
    ELSE IF Contains(k_all, n) /\ Contains(k_in, n) THEN s_btn_all_in
    ELSE IF Contains(k_deal, n) THEN s_btn_deal_again
    ELSE IF Contains(k_winner, n) \/ Contains(k_banner, n) THEN s_winner_banner
    ELSE IF Contains(k_hole, n) THEN s_hole_card
    ELSE IF Contains(k_board, n) \/ Contains(k_community, n) THEN s_board_card
    ELSE IF Contains(k_pot, n) THEN s_pot_amount
    ELSE IF Contains(k_back, n) THEN s_card_back
    ELSE IF Contains(k_slider, n) THEN s_bet_slider
    ELSE n

\* the "Handle variations" chain of convert_to_yolo, applied to the
\* lower-cased, underscored name
HandleVariations(n) ==
    IF Contains(k_check, n) \/ Contains(k_call, n) THEN s_btn_check_call
    ELSE IF Contains(k_fold, n) THEN s_btn_fold
    ELSE IF Contains(k_raise, n) THEN s_btn_raise
    ELSE IF Contains(k_all, n) /\ Contains(k_in, n) THEN s_btn_all_in
    ELSE IF Contains(k_deal, n) THEN s_btn_deal_again
    ELSE IF Contains(k_winner, n) \/ Contains(k_banner, n) THEN s_winner_banner
    ELSE IF Contains(k_hole, n) THEN s_hole_card
    ELSE IF Contains(k_board, n) \/ Contains(k_community, n) THEN s_board_card
    ELSE IF Contains(k_pot, n) THEN s_pot_amount
    ELSE IF Contains(k_back, n) THEN s_card_back
    ELSE IF Contains(k_slider, n) THEN s_bet_slider
    ELSE n

\* class_name of convert_to_yolo after normalisation
NormalizeClass(raw) == HandleVariations(ReplaceSpace(Lower(raw)))

-----------------------------------------------------------------------------
(* Numbers *)

Unit7 == 10000000      \* 1.0 in units of 1e-7 (fractions of a response)
Micro == 1000000       \* 1.0 in units of 1e-6 (fields of a label line)

\* f"{v:.6f}" of the non-negative rational num/den, as a count of 1e-6;
\* up tells which way the nearest double lies when num/den is a decimal tie
Fmt6(num, den, up) ==
    LET a == num * Micro
        q == a \div den
        r == a % den
    IN  IF 2 * r > den \/ (2 * r = den /\ up) THEN q + 1 ELSE q

\* f"{v:.6f}" of a non-negative decimal fraction v given in units of 1e-7
Fmt6Dec(v, up) ==
    LET q == v \div 10
        r == v % 10
    IN  IF r > 5 \/ (r = 5 /\ up) THEN q + 1 ELSE q

-----------------------------------------------------------------------------
(* Detections as the scripts read them *)

\* One element of the list a response parser returned, seen through the
\* accesses the normalizers make:
\*   isObj    the element is a mapping (it has .get)
\*   clsStr   det.get("class", "") is a str;  cls is that str
\*   num      float() accepts det.get("x"|"y"|"w"|"h", 0);  x, y, w, h are
\*            the values in units of 1e-7 (0 when the key is missing)
\*   boxSized det.get("bbox", []) has a len();  bbox is its content, pixels
\*   boxNum   the elements of bbox are numbers
Entry(isObj, clsStr, cls, num, x, y, w, h, boxSized, bbox, boxNum) ==
    [isObj |-> isObj, clsStr |-> clsStr, cls |-> cls, num |-> num,
     x |-> x, y |-> y, w |-> w, h |-> h,
     boxSized |-> boxSized, bbox |-> bbox, boxNum |-> boxNum]

\* {"class": cls, "x": x, "y": y, "w": w, "h": h}
FracDet(cls, x, y, w, h) ==
    Entry(TRUE, TRUE, cls, TRUE, x, y, w, h, TRUE, <<>>, TRUE)

\* {"class": cls, "bbox": bbox}
PixelDet(cls, bbox) ==
    Entry(TRUE, TRUE, cls, TRUE, 0, 0, 0, 0, TRUE, bbox, TRUE)

\* an element that is no mapping (a number, a string, a nested list)
NonObject == Entry(FALSE, TRUE, <<>>, TRUE, 0, 0, 0, 0, TRUE, <<>>, TRUE)

\* one written label line "{class_id} {x:.6f} {y:.6f} {w:.6f} {h:.6f}"
Line(id, x, y, w, h) == [id |-> id, x |-> x, y |-> y, w |-> w, h |-> h]

NoLines == <<>>

-----------------------------------------------------------------------------
(* autoLabel.py: convert_to_yolo *)

\* variant: the upper limits taken as strict
ValidCoords_strict(x, y, w, h) ==
    /\ 0 <= x /\ x < Unit7
    /\ 0 <= y /\ y < Unit7
    /\ 0 < w /\ w < Unit7
    /\ 0 < h /\ h < Unit7

\* "Validate coordinates"
ValidCoords(x, y, w, h) ==
    /\ 0 <= x /\ x <= Unit7
    /\ 0 <= y /\ y <= Unit7
    /\ 0 < w /\ w <= Unit7
    /\ 0 < h /\ h <= Unit7

\* the f-string appended to yolo_lines
YoloLine(id, x, y, w, h, up) ==
    Line(id, Fmt6Dec(x, up), Fmt6Dec(y, up), Fmt6Dec(w, up), Fmt6Dec(h, up))

RECURSIVE ConvertLoop(_, _, _, _)
ConvertLoop(dets, i, yolo_lines, up) ==
    IF i > Len(dets) THEN [raised |-> FALSE, lines |-> yolo_lines]
    ELSE LET det == dets[i] IN
         IF ~det.isObj \/ ~det.clsStr
         THEN [raised |-> TRUE, lines |-> NoLines]     \* AttributeError
         ELSE LET class_name == NormalizeClass(det.cls) IN
              IF class_name \notin DOMAIN CLASSES
              THEN ConvertLoop(dets, i + 1, yolo_lines, up)
              ELSE IF ~det.num
              THEN [raised |-> TRUE, lines |-> NoLines] \* ValueError / TypeError
              ELSE IF ~ValidCoords(det.x, det.y, det.w, det.h)
              THEN ConvertLoop(dets, i + 1, yolo_lines, up)
              ELSE ConvertLoop(dets, i + 1,
                       Append(yolo_lines,
                              YoloLine(CLASSES[class_name],
                                       det.x, det.y, det.w, det.h, up)),
                       up)

convert_to_yolo(detections, up) == ConvertLoop(detections, 1, NoLines, up)

-----------------------------------------------------------------------------
(* auto_label_poker.py: convert_to_yolo_format and the loop around it *)

\* variant: every value divided by the image width
PixelNorm_width(bbox, img_width, img_height) ==
    << <<bbox[1], img_width>>, <<bbox[2], img_width>>,
       <<bbox[3], img_width>>, <<bbox[4], img_width>> >>

\* "Normalize to 0-1 range": the four quotients as <<numerator, denominator>>
PixelNorm(bbox, img_width, img_height) ==
    << <<bbox[1], img_width>>, <<bbox[2], img_height>>,
       <<bbox[3], img_width>>, <<bbox[4], img_height>> >>

\* max(0, min(1, v)) of the quotient v = q[1] / q[2]
Clamp01(q) ==
    IF q[1] > q[2] THEN <<q[2], q[2]>>
    ELSE IF q[1] < 0 THEN <<0, q[2]>>
    ELSE q

\* result: raised (exception), none (returned None) or a line
convert_to_yolo_format(detection, img_width, img_height, up) ==
    IF ~detection.isObj \/ ~detection.clsStr
    THEN [raised |-> TRUE, none |-> TRUE, line |-> Line(0, 0, 0, 0, 0)]
    ELSE LET class_name == Lower(detection.cls) IN
    IF class_name \notin DOMAIN POKER_UI_CLASSES
    THEN [raised |-> FALSE, none |-> TRUE, line |-> Line(0, 0, 0, 0, 0)]
    ELSE IF ~detection.boxSized
    THEN [raised |-> TRUE, none |-> TRUE, line |-> Line(0, 0, 0, 0, 0)]
    ELSE IF Len(detection.bbox) # 4
    THEN [raised |-> FALSE, none |-> TRUE, line |-> Line(0, 0, 0, 0, 0)]
    ELSE IF ~detection.boxNum
    THEN [raised |-> TRUE, none |-> TRUE, line |-> Line(0, 0, 0, 0, 0)]
    ELSE LET n == PixelNorm(detection.bbox, img_width, img_height)
             c == [k \in 1..4 |-> Clamp01(n[k])]
         IN  [raised |-> FALSE, none |-> FALSE,
              line |-> Line(POKER_UI_CLASSES[class_name],
                            Fmt6(c[1][1], c[1][2], up),
                            Fmt6(c[2][1], c[2][2], up),
                            Fmt6(c[3][1], c[3][2], up),
                            Fmt6(c[4][1], c[4][2], up))]

\* process_image: "for det in detections: label = convert_to_yolo_format(...)"
RECURSIVE LabelLoop(_, _, _, _, _)
LabelLoop(detections, i, yolo_labels, img, up) ==
    IF i > Len(detections) THEN [raised |-> FALSE, lines |-> yolo_labels]
    ELSE LET label == convert_to_yolo_format(detections[i], img[1], img[2], up)
         IN  IF label.raised THEN [raised |-> TRUE, lines |-> NoLines]
             ELSE IF label.none
             THEN LabelLoop(detections, i + 1, yolo_labels, img, up)
             ELSE LabelLoop(detections, i + 1,
                            Append(yolo_labels, label.line), img, up)

yolo_labels_of(detections, img, up) == LabelLoop(detections, 1, NoLines, img, up)

-----------------------------------------------------------------------------
(* Normalizer harness: the inputs *)

r_check_call == <<"C","h","e","c","k"," ","/"," ","C","a","l","l">>
r_spaceship  == <<"s","p","a","c","e","s","h","i","p">>
r_Button     == <<"B","u","t","t","o","n">>
r_Fold       == <<"F","O","L","D">>
r_CALL       == <<"C","A","L","L">>
r_check_button == <<"c","h","e","c","k","_","b","u","t","t","o","n">>
r_fold_or_call == <<"F","o","l","d"," ","o","r"," ","C","a","l","l">>

\* class strings a model answers with
ClassSamples ==
    DOMAIN CLASSES \cup DOMAIN POKER_UI_CLASSES
        \cup {r_check_call, r_spaceship, r_Button, r_Fold, <<>>,
              r_CALL, r_check_button, r_fold_or_call}

\* fractions, in units of 1e-7: below 0, 0, a decimal tie, 1, above 1
XVals == {-1000000, 0, 5000005, Unit7, 12000000}
YVals == {0, 9500000}
\* sizes: 0, 4e-7 (prints as 0.000000), a tie, 1, above 1
WVals == {0, 4, 2000005, Unit7, 15000000}
HVals == {0, 500000, Unit7}

\* pixel boxes and image sizes
ImgSizes == {<<100, 200>>, <<300, 700>>}
BxVals == {-10, 0, 50, 350}
ByVals == {0, 100}
BwVals == {-5, 0, 20, 400}
BhVals == {0, 10, 800}

FracDets ==
    {FracDet(c, x, y, w, h) :
        c \in ClassSamples, x \in XVals, y \in YVals, w \in WVals, h \in HVals}

PixelDets ==
    {PixelDet(c, <<bx, by, bw, bh>>) :
        c \in ClassSamples, bx \in BxVals, by \in ByVals,
        bw \in BwVals, bh \in BhVals}

\* malformed entries: no mapping, a class that is no string, coordinates
\* float() rejects, a bbox of the wrong length, without len(), or of strings
MalformedDets ==
    { NonObject,
      Entry(TRUE, FALSE, <<>>, TRUE, 5000000, 5000000, 1000000, 1000000,
            TRUE, <<50, 50, 20, 10>>, TRUE),
      Entry(TRUE, TRUE, s_card_back, FALSE, 0, 0, 0, 0, TRUE, <<>>, TRUE),
      Entry(TRUE, TRUE, s_card_back, TRUE, 5000000, 5000000, 1000000, 1000000,
            TRUE, <<50, 50, 20>>, TRUE),
      Entry(TRUE, TRUE, s_card_back, TRUE, 5000000, 5000000, 1000000, 1000000,
            FALSE, <<>>, TRUE),
      Entry(TRUE, TRUE, s_card_back, TRUE, 5000000, 5000000, 1000000, 1000000,
            TRUE, <<50, 50, 20, 10>>, FALSE) }

\* a well-formed neighbour, acceptable to both scripts: "card_back" is in
\* both vocabularies and the entry carries both geometries
Neighbour ==
    Entry(TRUE, TRUE, s_card_back, TRUE, 2500000, 7500000, 1000000, 2000000,
          TRUE, <<30, 40, 10, 20>>, TRUE)

SeqsUpTo(S, n) == UNION {[1..k -> S] : k \in 0..n}

-----------------------------------------------------------------------------
(* Properties of the normalizers *)

\* the detection under study is of the shape the autoLabel prompt asks for
IsFrac(d) == d.isObj /\ d.clsStr /\ d.num /\ d.boxSized /\ d.bbox = <<>>

\* ... of the shape the auto_label_poker prompt asks for
IsPixel(d) == d.isObj /\ d.clsStr /\ d.boxSized /\ d.boxNum /\ Len(d.bbox) = 4

Abs(n) == IF n < 0 THEN -n ELSE n

\* every neighbour yields one line, so this is where the line of cdet goes
Slot == Len(cbefore) + 1

OneLineForDet ==
    /\ ~cout.raised
    /\ Len(cout.lines) = Len(cbefore) + 1 + Len(cafter)

NoLineForDet ==
    /\ ~cout.raised
    /\ Len(cout.lines) = Len(cbefore) + Len(cafter)

\* a label field m (1e-6) is within 1e-6 of the fraction v (1e-7)
Near(m, v) == Abs(10 * m - v) <= 10

\* a label field m (1e-6) is the 6-decimal rounding of n / d
RoundedQuotient(m, n, d) == 2 * Abs(m * d - n * Micro) <= d

\* numerator of the quotient n / d clamped into [0, 1]
ClampNum(n, d) == IF n < 0 THEN 0 ELSE IF n > d THEN d ELSE n

\* C4: a detection whose width or height is 0 after clamping, or whose
\* class is not in the vocabulary, is dropped, and the other detections of
\* the batch are converted exactly as they would be without it.
C4_DroppedLeavesRest ==
    /\ (cpc = "doneA" /\ IsFrac(cdet)
          /\ (NormalizeClass(cdet.cls) \notin DOMAIN CLASSES
                \/ cdet.w <= 0 \/ cdet.h <= 0))
       => cout = convert_to_yolo(cbefore \o cafter, ctie)
    /\ (cpc = "doneP" /\ IsPixel(cdet)
          /\ (Lower(cdet.cls) \notin DOMAIN POKER_UI_CLASSES
                \/ cdet.bbox[3] <= 0 \/ cdet.bbox[4] <= 0))
       => cout = yolo_labels_of(cbefore \o cafter, cimg, ctie)

\* C6: a detection with a vocabulary class and fraction geometry
\* 0 <= x, y <= 1, 0 < w, h <= 1 gives exactly one label in convert_to_yolo,
\* with the vocabulary id of the class and coordinates within 1e-6 of the
\* inputs.
C6_ValidFractionOneLabel ==
    (/\ cpc = "doneA" /\ IsFrac(cdet)
     /\ cdet.cls \in DOMAIN CLASSES
     /\ 0 <= cdet.x /\ cdet.x <= Unit7 /\ 0 <= cdet.y /\ cdet.y <= Unit7
     /\ 0 < cdet.w /\ cdet.w <= Unit7 /\ 0 < cdet.h /\ cdet.h <= Unit7)
    => /\ OneLineForDet
       /\ cout.lines[Slot].id = CLASSES[cdet.cls]
       /\ Near(cout.lines[Slot].x, cdet.x)
       /\ Near(cout.lines[Slot].y, cdet.y)
       /\ Near(cout.lines[Slot].w, cdet.w)
       /\ Near(cout.lines[Slot].h, cdet.h)

C6_Witness ==
    /\ cpc = "doneA" /\ IsFrac(cdet)
    /\ cdet.cls = s_btn_all_in
    /\ cdet.x = 5000005 /\ cdet.y = 9500000 /\ cdet.w = Unit7 /\ cdet.h = 500000
    /\ Len(cbefore) = 1
    /\ Len(cout.lines) = 2 + Len(cafter)
    /\ cout.lines[2].id = 3 /\ cout.lines[2].w = Micro

\* C7: for a pixel box [cx, cy, w, h] of a recognized class and an image of
\* size (W, H), convert_to_yolo_format writes cx/W, cy/H, w/W, h/H, each
\* clamped into [0,1] (printed with six decimals).
C7_PixelQuotientsClamped ==
    (/\ cpc = "doneP" /\ IsPixel(cdet)
     /\ Lower(cdet.cls) \in DOMAIN POKER_UI_CLASSES)
    => /\ OneLineForDet
       /\ RoundedQuotient(cout.lines[Slot].x,
                          ClampNum(cdet.bbox[1], cimg[1]), cimg[1])
       /\ RoundedQuotient(cout.lines[Slot].y,
                          ClampNum(cdet.bbox[2], cimg[2]), cimg[2])
       /\ RoundedQuotient(cout.lines[Slot].w,
                          ClampNum(cdet.bbox[3], cimg[1]), cimg[1])
       /\ RoundedQuotient(cout.lines[Slot].h,
                          ClampNum(cdet.bbox[4], cimg[2]), cimg[2])

C7_Witness ==
    /\ cpc = "doneP" /\ IsPixel(cdet)
    /\ cdet.cls = r_Button
    /\ cdet.bbox = <<50, 100, 400, 10>> /\ cimg = <<300, 700>>
    /\ cbefore = <<>>
    /\ cout.lines[1] = Line(0, 166667, 142857, Micro, 14286)

\* C8: a detection of a recognized class with a centre or size outside
\* [0,1] is not dropped for that: its values are clamped and the label is
\* emitted, unless the clamped width or height is 0.
C8_OutOfRangeIsClamped ==
    /\ (/\ cpc = "doneA" /\ IsFrac(cdet)
        /\ NormalizeClass(cdet.cls) \in DOMAIN CLASSES
        /\ cdet.w > 0 /\ cdet.h > 0
        /\ \E v \in {cdet.x, cdet.y, cdet.w, cdet.h} : v < 0 \/ v > Unit7)
       => /\ OneLineForDet
          /\ cout.lines[Slot].x = ClampNum(cdet.x, Unit7) \div 10
          /\ cout.lines[Slot].w = ClampNum(cdet.w, Unit7) \div 10
    /\ (/\ cpc = "doneP" /\ IsPixel(cdet)
        /\ Lower(cdet.cls) \in DOMAIN POKER_UI_CLASSES
        /\ cdet.bbox[3] > 0 /\ cdet.bbox[4] > 0
        /\ \/ cdet.bbox[1] < 0 \/ cdet.bbox[1] > cimg[1]
           \/ cdet.bbox[2] > cimg[2]
           \/ cdet.bbox[3] > cimg[1] \/ cdet.bbox[4] > cimg[2])
       => /\ OneLineForDet
          /\ RoundedQuotient(cout.lines[Slot].x,
                             ClampNum(cdet.bbox[1], cimg[1]), cimg[1])
          /\ RoundedQuotient(cout.lines[Slot].w,
                             ClampNum(cdet.bbox[3], cimg[1]), cimg[1])

-----------------------------------------------------------------------------
(* Response text and json.loads *)

\* Lexical tokens of a response (white space is not represented):
\*   "[" "]" "{" "}" ","   JSON punctuation
\*   "n"   a JSON scalar that is truthy in Python (a number, a string)
\*   "z"   null
\*   "t"   prose: words that are no JSON and contain no bracket or brace
\*   "f"   a fence of three backticks;  "j"  the word json
\*   "D"   a run of "[" longer than the interpreter's recursion limit
\*   a member token: the text of the members of one JSON object
\*     A1  "class": "btn_fold", "x": 0.5, "y": 0.5, "w": 0.2, "h": 0.1
\*     A0  "class": "hole_card", "x": 0.5, "y": 0.5, "w": 0, "h": 0.1
\*     AU  "class": "spaceship", "x": 0.5, "y": 0.5, "w": 0.2, "h": 0.1
\*     AC  "class": 5, "x": 0.5, "y": 0.5, "w": 0.2, "h": 0.1
\*     AN  "class": "btn_fold", "x": "abc", "y": 0.5, "w": 0.2, "h": 0.1
\*     K   "class": "btn_fold"
\*     B1  "class": "button", "bbox":      (a value follows: [50, 50, 20, 10])
\*     B0  "class": "slider", "bbox":      (a value follows: [50, 50, 0, 10])
FullMembers == {"A1", "A0", "AU", "AC", "AN", "K"}
PrefixMembers == {"B1", "B0"}

MemberKeys ==
    [m \in FullMembers \cup PrefixMembers |->
        IF m = "K" THEN {"class"}
        ELSE IF m \in PrefixMembers THEN {"class", "bbox"}
        ELSE {"class", "x", "y", "w", "h"}]

\* a decoded JSON value as the scripts can observe it: its Python type t,
\* for a dict the member tokens it was read from (a prefix member is
\* followed by the type of its value), for a list its elements
Val(t, mem, items) == [t |-> t, mem |-> mem, items |-> items]
El(t, mem) == [t |-> t, mem |-> mem]
EmptyList == Val("list", <<>>, <<>>)

\* outcomes of decoding: a value, json.JSONDecodeError, or RecursionError
\* (raised by the decoder once the nesting exceeds the recursion limit)
DecodeError ==
    [ok |-> FALSE, exc |-> "decode", next |-> 0, val |-> Val("null", <<>>, <<>>)]
RecursionError ==
    [ok |-> FALSE, exc |-> "recursion", next |-> 0,
     val |-> Val("null", <<>>, <<>>)]
Decoded(next, val) == [ok |-> TRUE, exc |-> "none", next |-> next, val |-> val]

RECURSIVE ParseValue(_, _)
RECURSIVE ParseItems(_, _, _)
RECURSIVE ParseMembers(_, _, _)

\* the JSON value that starts at token i of s
ParseValue(s, i) ==
    IF i > Len(s) THEN DecodeError
    ELSE IF s[i] = "n" THEN Decoded(i + 1, Val("scalar", <<>>, <<>>))
    ELSE IF s[i] = "z" THEN Decoded(i + 1, Val("null", <<>>, <<>>))
    ELSE IF s[i] = "D" THEN RecursionError
    ELSE IF s[i] = "["
    THEN IF i + 1 <= Len(s) /\ s[i + 1] = "]"
         THEN Decoded(i + 2, EmptyList)
         ELSE ParseItems(s, i + 1, <<>>)
    ELSE IF s[i] = "{"
    THEN IF i + 1 <= Len(s) /\ s[i + 1] = "}"
         THEN Decoded(i + 2, Val("dict", <<>>, <<>>))
         ELSE ParseMembers(s, i + 1, <<>>)
    ELSE DecodeError

ParseItems(s, i, acc) ==
    LET v == ParseValue(s, i) IN
    IF ~v.ok THEN v
    ELSE IF v.next > Len(s) THEN DecodeError
    ELSE LET acc2 == Append(acc, El(v.val.t, v.val.mem)) IN
         IF s[v.next] = "]" THEN Decoded(v.next + 1, Val("list", <<>>, acc2))
         ELSE IF s[v.next] = "," THEN ParseItems(s, v.next + 1, acc2)
         ELSE DecodeError

ParseMembers(s, i, mem) ==
    IF i > Len(s) THEN DecodeError
    ELSE LET v == IF s[i] \in PrefixMembers THEN ParseValue(s, i + 1)
                  ELSE DecodeError
             ok == s[i] \in FullMembers \/ v.ok
             j == IF s[i] \in FullMembers THEN i + 1 ELSE v.next
             mem2 == IF s[i] \in FullMembers THEN Append(mem, s[i])
                     ELSE mem \o <<s[i], v.val.t>>
         IN  IF ~ok THEN v
             ELSE IF j > Len(s) THEN DecodeError
             ELSE IF s[j] = "}" THEN Decoded(j + 1, Val("dict", mem2, <<>>))
             ELSE IF s[j] = "," THEN ParseMembers(s, j + 1, mem2)
             ELSE DecodeError

\* json.loads(s)
json_loads(s) ==
    LET v == ParseValue(s, 1) IN
    IF v.ok /\ v.next # Len(s) + 1 THEN DecodeError ELSE v

\* key in obj, for a decoded dict
HasKey(el, key) ==
    \E k \in 1..Len(el.mem) :
        el.mem[k] \in DOMAIN MemberKeys /\ key \in MemberKeys[el.mem[k]]

-----------------------------------------------------------------------------
(* The regular expressions of the parsers, on tokens *)

Positions(s, tok) == {i \in 1..Len(s) : s[i] = tok}
\* where a "[" character stands
Opens(s) == Positions(s, "[") \cup Positions(s, "D")
Min(S) == CHOOSE m \in S : \A o \in S : m <= o
Max(S) == CHOOSE m \in S : \A o \in S : m >= o
NoMatch == [found |-> FALSE, text |-> <<>>]
Match(text) == [found |-> TRUE, text |-> text]

\* re.search(r'```(?:json)?\s*([\s\S]*?)```', s).group(1)
FenceMatch(s) ==
    IF Positions(s, "f") = {} THEN NoMatch
    ELSE LET open == Min(Positions(s, "f"))
             from == IF open + 1 <= Len(s) /\ s[open + 1] = "j"
                     THEN open + 2 ELSE open + 1
             closes == {k \in Positions(s, "f") : k >= from}
         IN  IF closes = {} THEN NoMatch
             ELSE Match(SubSeq(s, from, Min(closes) - 1))

\* re.search(r'\[[\s\S]*\]', s).group(0): greedy, up to the last "]"
ArrayMatchGreedy(s) ==
    IF Opens(s) = {} THEN NoMatch
    ELSE LET a == Min(Opens(s))
             ends == {k \in Positions(s, "]") : k > a}
         IN  IF ends = {} THEN NoMatch ELSE Match(SubSeq(s, a, Max(ends)))

\* re.search(r'\[[\s\S]*?\]', s).group(): lazy, up to the first "]"
ArrayMatchLazy(s) ==
    IF Opens(s) = {} THEN NoMatch
    ELSE LET a == Min(Opens(s))
             ends == {k \in Positions(s, "]") : k > a}
         IN  IF ends = {} THEN NoMatch ELSE Match(SubSeq(s, a, Min(ends)))

\* re.finditer(r'\{[^{}]+\}', s): the matches, left to right
RECURSIVE ObjectMatches(_, _)
ObjectMatches(s, i) ==
    IF i > Len(s) THEN <<>>
    ELSE IF s[i] # "{" THEN ObjectMatches(s, i + 1)
    ELSE LET braces == {k \in Positions(s, "{") \cup Positions(s, "}") : k > i}
         IN  IF braces = {} THEN <<>>
             ELSE LET j == Min(braces) IN
                  IF s[j] = "}" /\ j > i + 1
                  THEN <<SubSeq(s, i, j)>> \o ObjectMatches(s, j + 1)
                  ELSE ObjectMatches(s, j)

-----------------------------------------------------------------------------
(* auto_label_poker.py: parse_vlm_response *)

\* what one stage of a parser does: return a value, let an exception
\* escape, or fall through to the next stage
Return(stage, val) == [st |-> "return", stage |-> stage, val |-> val]
Raise(stage) == [st |-> "raise", stage |-> stage, val |-> EmptyList]
FallThrough == [st |-> "next", stage |-> "none", val |-> EmptyList]

\* "First, try direct JSON parse"
DirectStage(s) ==
    LET r == json_loads(s) IN
    IF r.exc = "recursion" THEN Raise("direct")
    ELSE IF r.ok /\ r.val.t = "list" THEN Return("direct", r.val)
    ELSE FallThrough

\* "Try to extract JSON from markdown code block"
FenceStage(s) ==
    LET m == FenceMatch(s)
        r == json_loads(m.text)
    IN  IF m.found /\ r.exc = "recursion" THEN Raise("fence")
        ELSE IF m.found /\ r.ok THEN Return("fence", r.val)
        ELSE FallThrough

\* "Try to find array pattern"
ArrayStage(s) ==
    LET m == ArrayMatchGreedy(s)
        r == json_loads(m.text)
    IN  IF m.found /\ r.exc = "recursion" THEN Raise("array")
        ELSE IF m.found /\ r.ok THEN Return("array", r.val)
        ELSE FallThrough

parse_vlm_response(response) ==
    IF DirectStage(response).st # "next" THEN DirectStage(response)
    ELSE IF FenceStage(response).st # "next" THEN FenceStage(response)
    ELSE IF ArrayStage(response).st # "next" THEN ArrayStage(response)
    ELSE Return("none", EmptyList)

-----------------------------------------------------------------------------
(* autoLabel.py: parse_llm_response *)

\* the try block: the lazy array pattern, else the whole text; a
\* JSONDecodeError falls through to the except block, any other exception
\* escapes
TryBlock(s) ==
    LET m == ArrayMatchLazy(s)
        r == IF m.found THEN json_loads(m.text) ELSE json_loads(s)
    IN  IF r.exc = "recursion" THEN Raise("try")
        ELSE IF r.ok THEN Return(IF m.found THEN "array" ELSE "direct", r.val)
        ELSE FallThrough

\* "Try to extract individual objects": the objects kept from the matches
RECURSIVE KeptObjects(_)
KeptObjects(matches) ==
    IF matches = <<>> THEN <<>>
    ELSE LET r == json_loads(Head(matches))
             obj == El(r.val.t, r.val.mem)
         IN  IF r.ok /\ HasKey(obj, "class") /\ HasKey(obj, "x")
             THEN <<obj>> \o KeptObjects(Tail(matches))
             ELSE KeptObjects(Tail(matches))

\* the except block
ObjectsStage(s) ==
    Return("objects", Val("list", <<>>, KeptObjects(ObjectMatches(s, 1))))

parse_llm_response(content) ==
    IF TryBlock(content).st # "next" THEN TryBlock(content)
    ELSE ObjectsStage(content)

-----------------------------------------------------------------------------
(* Parser harness *)

\* the pieces a response text is put together from
Pieces ==
    { <<"[">>, <<"]">>, <<"{">>, <<"}">>, <<",">>, <<"n">>, <<"z">>,
      <<"t">>, <<"f">>, <<"j">>, <<"D">>, <<"A1">>, <<"K">>, <<"B1">>,
      <<"{", "A1", "}">>, <<"{", "K", "}">>,
      <<"{", "B1", "[", "n", "]", "}">> }

RECURSIVE Flatten(_)
Flatten(ps) == IF ps = <<>> THEN <<>> ELSE Head(ps) \o Flatten(Tail(ps))

Texts == {Flatten(ps) : ps \in SeqsUpTo(Pieces, MaxPieces)}

-----------------------------------------------------------------------------
(* Properties of the response parsers *)

\* no part of the text is a JSON document: nothing any stage could decode
NoJsonInside(s) ==
    \A i \in 1..Len(s) : \A j \in i..Len(s) : ~json_loads(SubSeq(s, i, j)).ok

\* C9: for every response text, the empty one and those with unbalanced
\* brackets or braces included, the parser returns without raising, and it
\* returns the empty list when there is nothing in the text to decode.
C9_ParserNeverRaises ==
    ppc \in {"vlm", "llm"}
    => /\ pres.st = "return"
       /\ NoJsonInside(presp) => pres.val = EmptyList

\* C10: whichever stage succeeds, the parser returns a list whose every
\* element is a mapping; never a bare object, a scalar, or a list with
\* elements that are no objects.
C10_ListOfMappings ==
    ppc \in {"vlm", "llm"}
    => /\ pres.val.t = "list"
       /\ \A k \in 1..Len(pres.val.items) : pres.val.items[k].t = "dict"

\* the objects of the non-nested {...} substrings of the text that carry a
\* "class" key and an "x" or a "bbox" key
RECURSIVE DetectionObjects(_)
DetectionObjects(matches) ==
    IF matches = <<>> THEN <<>>
    ELSE LET r == json_loads(Head(matches))
             obj == El(r.val.t, r.val.mem)
             rest == DetectionObjects(Tail(matches))
         IN  IF r.ok /\ HasKey(obj, "class")
                     /\ (HasKey(obj, "x") \/ HasKey(obj, "bbox"))
             THEN <<obj>> \o rest ELSE rest

\* the value of the first stage that succeeds, the stages taken in the
\* order whole text (a list only), fenced block, greedy array, objects
FirstSuccess(s) ==
    LET whole == json_loads(s)
        fence == json_loads(FenceMatch(s).text)
        array == json_loads(ArrayMatchGreedy(s).text)
    IN  IF whole.ok /\ whole.val.t = "list" THEN whole.val
        ELSE IF FenceMatch(s).found /\ fence.ok THEN fence.val
        ELSE IF ArrayMatchGreedy(s).found /\ array.ok THEN array.val
        ELSE Val("list", <<>>, DetectionObjects(ObjectMatches(s, 1)))

\* C11: a parser that returns gives the value of the first stage that
\* succeeds in the order whole text as a list, fenced code block, greedy
\* [...] substring, non-nested {...} objects with a "class" and an "x" or
\* "bbox" key; a later stage counts only when every earlier one failed.
C11_OrderedFallbackChain ==
    (ppc \in {"vlm", "llm"} /\ pres.st = "return")
        => pres.val = FirstSuccess(presp)

-----------------------------------------------------------------------------
(* What the scripts do with a decoded response *)

\* the last token of mem that is in S, "" if there is none
LastIn(mem, S) ==
    LET at == {k \in 1..Len(mem) : mem[k] \in S}
    IN  IF at = {} THEN "" ELSE mem[Max(at)]

\* the type of the value that follows the last prefix member of mem
BoxType(mem) ==
    LET at == {k \in 1..Len(mem) : mem[k] \in PrefixMembers}
    IN  IF at = {} THEN "none" ELSE mem[Max(at) + 1]

\* the texts the member tokens stand for
MemberClass ==
    [m \in FullMembers \cup PrefixMembers \cup {""} |->
        IF m \in {"A1", "AN", "K"} THEN s_btn_fold
        ELSE IF m = "A0" THEN s_hole_card
        ELSE IF m = "AU" THEN r_spaceship
        ELSE IF m = "B1" THEN s_button
        ELSE IF m = "B0" THEN s_slider
        ELSE <<>>]

MemberGeom ==
    [m \in FullMembers \cup {""} |->
        IF m \in {"A1", "AU", "AC"} THEN <<5000000, 5000000, 2000000, 1000000>>
        ELSE IF m = "A0" THEN <<5000000, 5000000, 0, 1000000>>
        ELSE <<0, 0, 0, 0>>]

MemberBox ==
    [m \in PrefixMembers |->
        IF m = "B1" THEN <<50, 50, 20, 10>> ELSE <<50, 50, 0, 10>>]

\* an element of a decoded list as the normalizers access it; of members
\* that repeat a key the last one counts, as in a Python dict
EntryOf(el) ==
    IF el.t # "dict" THEN NonObject
    ELSE LET cm == LastIn(el.mem, FullMembers \cup PrefixMembers)
             xm == LastIn(el.mem, FullMembers \ {"K"})
             bm == LastIn(el.mem, PrefixMembers)
             bt == BoxType(el.mem)
             g == MemberGeom[xm]
         IN  Entry(TRUE, cm # "AC", MemberClass[cm], xm # "AN",
                   g[1], g[2], g[3], g[4],
                   bt \in {"none", "list", "dict"},
                   IF bt = "list" THEN MemberBox[bm] ELSE <<>>,
                   TRUE)

\* "for det in detections": the elements of a list; the keys of a dict,
\* which are strings
EntriesOf(v) ==
    IF v.t = "list" THEN [k \in 1..Len(v.items) |-> EntryOf(v.items[k])]
    ELSE <<NonObject>>

\* "not detections"
Falsy(v) ==
    \/ v.t = "null"
    \/ v.t = "list" /\ v.items = <<>>
    \/ v.t = "dict" /\ v.mem = <<>>

NoneVal == Val("null", <<>>, <<>>)

\* what a request to the model server comes to: the image file cannot be
\* read, the request fails or times out, the reply is not a 200, or the
\* reply carries a text
Obj(m) == <<"{", m, "}">>
BoxObj(m) == <<"{", m, "[", "n", "]", "}">>
Arr(body) == <<"[">> \o body \o <<"]">>

ResponseTexts ==
    { <<>>, <<"t">>, Arr(<<>>), <<"n">>, <<"D">>, Obj("A1"),
      Arr(Obj("A1")), Arr(Obj("A1") \o <<",">> \o Obj("A0")),
      Arr(Obj("AU")), Arr(<<"n">>), Arr(Obj("AC")), Arr(Obj("AN")),
      Arr(BoxObj("B1")), Arr(BoxObj("B0")),
      <<"t", "f", "j">> \o Arr(BoxObj("B1")) \o <<"f">> }

ModelOutcomes ==
    {[kind |-> k, text |-> <<>>] : k \in {"unreadable", "error", "non200"}}
        \cup {[kind |-> "text", text |-> t] : t \in ResponseTexts}

\* autoLabel.py call_llm: every failure inside it becomes []
call_llm(o) ==
    IF o.kind # "text" THEN EmptyList
    ELSE IF parse_llm_response(o.text).st = "raise" THEN EmptyList
    ELSE parse_llm_response(o.text).val

\* auto_label_poker.py ask_vlm, for an image that can be read: every
\* failure inside its try block becomes None
ask_vlm(o) ==
    IF o.kind # "text" THEN NoneVal
    ELSE IF parse_vlm_response(o.text).st = "raise" THEN NoneVal
    ELSE parse_vlm_response(o.text).val

\* responses that carry a JSON array of detection objects in a fenced code
\* block between two stretches of prose
Prose == {<<>>, <<"t">>, <<"t", "[", "n", "]", "t">>}

DetectionArrays ==
    LET objs == {Obj("A1"), Obj("K"), BoxObj("B1")}
    IN  {Arr(<<>>)} \cup {Arr(o) : o \in objs}
            \cup {Arr(o1 \o <<",">> \o o2) : o1 \in objs, o2 \in objs}

Fenced(pre, arr, post) == pre \o <<"f", "j">> \o arr \o <<"f">> \o post

FencedTexts ==
    {Fenced(pre, arr, post) :
        pre \in Prose, arr \in DetectionArrays, post \in Prose}

-----------------------------------------------------------------------------
(* The batch runs *)

Stems == 1..NumImages

Absent == [exists |-> FALSE, by |-> "none", lines |-> NoLines]
Written(by, lines) == [exists |-> TRUE, by |-> by, lines |-> lines]

\* size of every screenshot (get_image_dimensions)
ImgSize == <<100, 200>>

RunOver == pc \in {"idle", "done", "aborted", "exited", "training"}

\* ---- the dataset directories
Datasets == {"poker", "rive"}
NoManifest == <<>>
\* classes.txt: the names of a vocabulary, one per line, by ascending id
ClassesTxt(vocabulary) ==
    [k \in 1..Cardinality(DOMAIN vocabulary) |->
        CHOOSE name \in DOMAIN vocabulary : vocabulary[name] = k - 1]

\* the dataset config each training script looks for, and the one
\* auto_label_poker.py writes
poker_data_yaml == "training_data/poker_data.yaml"
rive_poker_data_yaml == "training_data/rive_poker_data.yaml"
poker_dataset_yaml == "training_data/poker_dataset.yaml"

NoCopies == [files |-> [s \in Stems |-> Absent], classes |-> NoManifest]

\* the labeling script named by a training script has run to its end
Labeled(dataset) ==
    [told EXCEPT ![dataset] = IF @ = "told" THEN "labeled" ELSE @]

ResetCounters ==
    /\ idx' = 1
    /\ ret' = [s \in Stems |-> "pending"]
    /\ zero' = {}
    /\ labeled' = 0 /\ skipped' = 0 /\ empty' = 0 /\ total_detections' = 0
    /\ processed' = 0 /\ total_labels' = 0

\* autoLabel.py main, up to the loop
StartAutoLabel ==
    /\ RunOver /\ runs < MaxRuns
    /\ runs' = runs + 1
    /\ tool' = "autoLabel" /\ pc' = "loop"
    /\ ResetCounters
    /\ UNCHANGED <<labels, modelCalls>>

\* auto_label_poker.py main, up to the loop: it returns at once when the
\* model server does not answer
StartAutoLabelPoker ==
    /\ RunOver /\ runs < MaxRuns
    /\ runs' = runs + 1
    /\ tool' = "auto_label_poker"
    /\ \E ollamaUp \in BOOLEAN : pc' = IF ollamaUp THEN "loop" ELSE "exited"
    /\ ResetCounters
    /\ UNCHANGED <<labels, modelCalls>>

Abort ==
    /\ pc' = "aborted"
    /\ UNCHANGED <<labels, idx, ret, zero, labeled, skipped, empty,
                   total_detections, processed, total_labels>>

\* autoLabel.py: one iteration of the loop of main, process_image included
ProcessImageA ==
    /\ tool = "autoLabel" /\ pc = "loop" /\ idx <= NumImages
    /\ UNCHANGED <<tool, runs, processed, total_labels>>
    /\ IF labels[idx].exists
       THEN /\ ret' = [ret EXCEPT ![idx] = "skipped"]
            /\ skipped' = skipped + 1
            /\ idx' = idx + 1
            /\ UNCHANGED <<labels, pc, modelCalls, zero, labeled, empty,
                           total_detections>>
       ELSE \E o \in ModelOutcomes, up \in BOOLEAN :
            LET detections == call_llm(o)
                yolo == convert_to_yolo(EntriesOf(detections), up)
            IN  /\ modelCalls' = IF o.kind = "unreadable" THEN modelCalls
                                 ELSE modelCalls + 1
                /\ IF Falsy(detections)
                   THEN /\ labels' = [labels EXCEPT
                                        ![idx] = Written("autoLabel", NoLines)]
                        /\ ret' = [ret EXCEPT ![idx] = "empty"]
                        /\ zero' = zero \cup {idx}
                        /\ empty' = empty + 1
                        /\ idx' = idx + 1
                        /\ UNCHANGED <<pc, labeled, skipped, total_detections>>
                   ELSE IF yolo.raised
                   THEN Abort
                   ELSE /\ labels' = [labels EXCEPT
                                        ![idx] = Written("autoLabel", yolo.lines)]
                        /\ ret' = [ret EXCEPT ![idx] = "labeled"]
                        /\ labeled' = labeled + 1
                        /\ total_detections' = total_detections + Len(yolo.lines)
                        /\ idx' = idx + 1
                        /\ UNCHANGED <<pc, zero, skipped, empty>>

\* auto_label_poker.py: one iteration of the loop of main, process_image
\* included
ProcessImagePoker ==
    /\ tool = "auto_label_poker" /\ pc = "loop" /\ idx <= NumImages
    /\ UNCHANGED <<tool, runs, labeled, skipped, empty, total_detections>>
    /\ \E o \in ModelOutcomes, up \in BOOLEAN :
        LET detections == ask_vlm(o)
            yolo == yolo_labels_of(EntriesOf(detections), ImgSize, up)
        IN  IF o.kind = "unreadable"
            THEN Abort /\ UNCHANGED modelCalls
            ELSE /\ modelCalls' = modelCalls + 1
                 /\ IF Falsy(detections)
                    THEN /\ ret' = [ret EXCEPT ![idx] = "returned"]
                         /\ zero' = zero \cup {idx}
                         /\ processed' = processed + 1
                         /\ idx' = idx + 1
                         /\ UNCHANGED <<labels, pc, total_labels>>
                    ELSE IF detections.t = "scalar" \/ yolo.raised
                    THEN Abort
                    ELSE /\ labels' = [labels EXCEPT
                                 ![idx] = Written("auto_label_poker", yolo.lines)]
                         /\ ret' = [ret EXCEPT ![idx] = "returned"]
                         /\ total_labels' = total_labels + Len(yolo.lines)
                         /\ processed' = processed + 1
                         /\ idx' = idx + 1
                         /\ UNCHANGED <<pc, zero>>

\* the loop is over: auto_label_poker.py writes its dataset config and
\* classes.txt; the summary is printed
Summary ==
    /\ pc = "loop" /\ idx > NumImages
    /\ pc' = "done"
    /\ IF tool = "auto_label_poker"
       THEN /\ configs' = configs \cup {poker_dataset_yaml}
            /\ classes_txt' = [classes_txt EXCEPT
                                 !["poker"] = ClassesTxt(POKER_UI_CLASSES)]
            /\ told' = Labeled("poker")
            /\ UNCHANGED <<rlabels, copies>>
       ELSE UNCHANGED dataVars
    /\ UNCHANGED <<labels, tool, idx, runs, modelCalls, ret, zero, labeled,
                   skipped, empty, total_detections, processed, total_labels>>

-----------------------------------------------------------------------------
(* The label file format: text written by the labelers, read by train_poker *)

DigitChars == <<"0", "1", "2", "3", "4", "5", "6", "7", "8", "9">>
IsDigit(c) == \E d \in 1..10 : DigitChars[d] = c
DigitVal(c) == (CHOOSE d \in 1..10 : DigitChars[d] = c) - 1
Whitespace == {" ", "\n", "\t"}

\* str(n) of a natural number
RECURSIVE Digits(_)
Digits(n) ==
    IF n < 10 THEN <<DigitChars[n + 1]>>
    ELSE Digits(n \div 10) \o <<DigitChars[(n % 10) + 1]>>

\* the digits of n without leading zeros
Pad6_unpadded(n) == Digits(n)

\* the six decimals of "%.6f": n < 10^6 with leading zeros
Pad6(n) ==
    <<DigitChars[((n \div 100000) % 10) + 1], DigitChars[((n \div 10000) % 10) + 1],
      DigitChars[((n \div 1000) % 10) + 1], DigitChars[((n \div 100) % 10) + 1],
      DigitChars[((n \div 10) % 10) + 1], DigitChars[(n % 10) + 1]>>

\* f"{v:.6f}" as text, for the rounded value m >= 0 in units of 1e-6
Fixed6(m) == Digits(m \div Micro) \o <<".">> \o Pad6(m % Micro)

\* f"{class_id} {x:.6f} {y:.6f} {w:.6f} {h:.6f}"
FormatLine(l) ==
    Digits(l.id) \o <<" ">> \o Fixed6(l.x) \o <<" ">> \o Fixed6(l.y)
        \o <<" ">> \o Fixed6(l.w) \o <<" ">> \o Fixed6(l.h)

\* "\n".join(yolo_lines)
RECURSIVE JoinLines(_)
JoinLines(lines) ==
    IF lines = <<>> THEN <<>>
    ELSE IF Len(lines) = 1 THEN FormatLine(lines[1])
    ELSE FormatLine(lines[1]) \o <<"\n">> \o JoinLines(Tail(lines))

\* "for line in f": the text cut after each newline
RECURSIVE FileLines(_, _)
FileLines(text, cur) ==
    IF text = <<>> THEN (IF cur = <<>> THEN <<>> ELSE <<cur>>)
    ELSE IF Head(text) = "\n"
    THEN <<Append(cur, "\n")>> \o FileLines(Tail(text), <<>>)
    ELSE FileLines(Tail(text), Append(cur, Head(text)))

\* line.strip().split(): the runs of characters between whitespace
RECURSIVE SplitFields(_, _)
SplitFields(line, cur) ==
    IF line = <<>> THEN (IF cur = <<>> THEN <<>> ELSE <<cur>>)
    ELSE IF Head(line) \in Whitespace
    THEN (IF cur = <<>> THEN <<>> ELSE <<cur>>) \o SplitFields(Tail(line), <<>>)
    ELSE SplitFields(Tail(line), Append(cur, Head(line)))

RECURSIVE DigitsValue(_, _)
DigitsValue(ds, acc) ==
    IF ds = <<>> THEN acc
    ELSE DigitsValue(Tail(ds), 10 * acc + DigitVal(Head(ds)))

AllDigits(f) == f # <<>> /\ \A k \in 1..Len(f) : IsDigit(f[k])

\* int(parts[0]) accepts an optional sign and digits
Unsigned(f) == IF f # <<>> /\ Head(f) \in {"-", "+"} THEN Tail(f) ELSE f
Sign(f) == IF f # <<>> /\ Head(f) = "-" THEN -1 ELSE 1
IsInt(f) == AllDigits(Unsigned(f))
IntOf(f) == Sign(f) * DigitsValue(Unsigned(f), 0)

\* float(x) of a decimal with at most six decimals, in units of 1e-6
DotAt(f) == {k \in 1..Len(f) : f[k] = "."}
IsFloat(f) ==
    LET u == Unsigned(f) IN
    \/ AllDigits(u)
    \/ /\ Cardinality(DotAt(u)) = 1
       /\ \A k \in 1..Len(u) : IsDigit(u[k]) \/ u[k] = "."
       /\ Len(u) >= 2
       /\ Len(u) - Min(DotAt(u)) <= 6
FloatOf(f) ==
    LET u == Unsigned(f)
        dot == IF DotAt(u) = {} THEN Len(u) + 1 ELSE Min(DotAt(u))
        whole == SubSeq(u, 1, dot - 1)
        frac == SubSeq(u, dot + 1, Len(u))
        frac6 == frac \o [k \in 1..(6 - Len(frac)) |-> "0"]
    IN  Sign(f) * (DigitsValue(whole, 0) * Micro + DigitsValue(frac6, 0))

\* train_poker.py validate_labels: the (class_id, coords) it parses from
\* the five-field lines of one file; an exception ends the file
RECURSIVE ParsedLabels(_, _)
ParsedLabels(lines, acc) ==
    IF lines = <<>> THEN acc
    ELSE LET parts == SplitFields(Head(lines), <<>>) IN
         IF Len(parts) # 5 THEN ParsedLabels(Tail(lines), acc)
         ELSE IF ~IsInt(parts[1]) \/ \E k \in 2..5 : ~IsFloat(parts[k])
         THEN acc
         ELSE ParsedLabels(Tail(lines),
                  Append(acc, Line(IntOf(parts[1]), FloatOf(parts[2]),
                                   FloatOf(parts[3]), FloatOf(parts[4]),
                                   FloatOf(parts[5]))))

NoFile == [st |-> "none", text |-> <<>>, read |-> <<>>]

-----------------------------------------------------------------------------
(* fastLabel.py and fastLabel_rive.py: labels from fixed templates *)

k_deal_again == <<"d", "e", "a", "l", "_", "a", "g", "a", "i", "n">>
k_action == <<"a", "c", "t", "i", "o", "n">>
k_again == <<"a", "g", "a", "i", "n">>
k_end == <<"e", "n", "d">>
k_dealt == <<"d", "e", "a", "l", "t">>
k_flop == <<"f", "l", "o", "p">>
k_turn == <<"t", "u", "r", "n">>
k_river == <<"r", "i", "v", "e", "r">>
k_start == <<"s", "t", "a", "r", "t">>
k_pre_flop == <<"p", "r", "e", "_", "f", "l", "o", "p">>
k_preflop == <<"p", "r", "e", "f", "l", "o", "p">>

\* file names of screenshots
n_deal_again ==
    <<"d", "e", "a", "l", "_", "a", "g", "a", "i", "n", "_", "0", "1", ".",
      "p", "n", "g">>
n_action ==
    <<"A", "c", "t", "i", "o", "n", "_", "0", "2", ".", "p", "n", "g">>
n_shot ==
    <<"s", "h", "o", "t", "_", "0", "3", ".", "p", "n", "g">>
n_flop ==
    <<"h", "a", "n", "d", "_", "f", "l", "o", "p", ".", "p", "n", "g">>
n_turn ==
    <<"h", "a", "n", "d", "_", "T", "U", "R", "N", ".", "p", "n", "g">>
n_river ==
    <<"r", "i", "v", "e", "r", "_", "5", ".", "j", "p", "g">>
n_flop_turn ==
    <<"t", "u", "r", "n", "_", "f", "l", "o", "p", ".", "p", "n", "g">>
n_deal_end_river ==
    <<"d", "e", "a", "l", "_", "e", "n", "d", "_", "r", "i", "v", "e", "r",
      ".", "p", "n", "g">>
n_start ==
    <<"s", "t", "a", "r", "t", ".", "p", "n", "g">>
n_dealt ==
    <<"d", "e", "a", "l", "t", ".", "p", "n", "g">>
n_preflop ==
    <<"p", "r", "e", "_", "f", "l", "o", "p", ".", "p", "n", "g">>
n_deal_again_action ==
    <<"a", "c", "t", "i", "o", "n", "_", "d", "e", "a", "l", "_", "a", "g",
      "a", "i", "n", ".", "p", "n", "g">>
n_deal ==
    <<"d", "e", "a", "l", ".", "p", "n", "g">>

ImageNames ==
    {n_deal_again, n_action, n_shot, n_flop, n_turn, n_river, n_flop_turn,
     n_deal_end_river, n_start, n_dealt, n_preflop, n_deal_again_action, n_deal}

\* directories a checkout of the scripts lies in
d_app ==
    <<"/", "a", "p", "p">>
d_driver ==
    <<"/", "h", "o", "m", "e", "/", "D", "r", "i", "v", "e", "r", "/", "d",
      "e", "t">>
d_return ==
    <<"/", "r", "e", "t", "u", "r", "n">>
d_flop ==
    <<"/", "x", "/", "f", "l", "o", "p">>

ScriptDirs == {d_app, d_driver, d_return, d_flop}

s_images_dir ==
    <<"/", "t", "r", "a", "i", "n", "i", "n", "g", "_", "d", "a", "t", "a",
      "/", "p", "o", "k", "e", "r", "_", "i", "m", "a", "g", "e", "s", "/">>
s_rive_images_dir ==
    <<"/", "t", "r", "a", "i", "n", "i", "n", "g", "_", "d", "a", "t", "a",
      "/", "r", "i", "v", "e", "_", "p", "o", "k", "e", "r", "_", "i", "m",
      "a", "g", "e", "s", "/">>

\* os.path.basename(path): what follows the last "/"
Basename(path) ==
    LET slashes == {k \in 1..Len(path) : path[k] = "/"}
    IN  IF slashes = {} THEN path ELSE SubSeq(path, Max(slashes) + 1, Len(path))

\* ---- fastLabel.py
FAST_CLASSES ==
    [btn_fold |-> 0, btn_check_call |-> 1, btn_raise |-> 2, btn_all_in |-> 3,
     btn_deal_again |-> 4, winner_banner |-> 5, hole_card |-> 6,
     board_card |-> 7, pot_amount |-> 8, card_back |-> 9, bet_slider |-> 10]

\* positions, in units of 1e-6 as "%.6f" prints them
Pos(x, y, w, h) == [x |-> x, y |-> y, w |-> w, h |-> h]
Label(id, pos) == Line(id, pos.x, pos.y, pos.w, pos.h)

ACTION_BUTTONS ==
    <<Label(FAST_CLASSES.btn_fold, Pos(128000, 970000, 220000, 45000)),
      Label(FAST_CLASSES.btn_check_call, Pos(372000, 970000, 220000, 45000)),
      Label(FAST_CLASSES.btn_raise, Pos(616000, 970000, 220000, 45000)),
      Label(FAST_CLASSES.btn_all_in, Pos(860000, 970000, 220000, 45000))>>
DEAL_AGAIN == Pos(500000, 970000, 900000, 50000)
POT_DISPLAY == Pos(500000, 720000, 200000, 80000)
BET_SLIDER == Pos(500000, 920000, 850000, 35000)
HOLE_CARDS ==
    <<Pos(420000, 830000, 120000, 130000), Pos(580000, 830000, 120000, 130000)>>
BOARD_CARDS ==
    <<Pos(260000, 610000, 100000, 110000), Pos(380000, 610000, 100000, 110000),
      Pos(500000, 610000, 100000, 110000), Pos(620000, 610000, 100000, 110000),
      Pos(740000, 610000, 100000, 110000)>>
WINNER_BANNER == Pos(500000, 560000, 800000, 45000)

Labels(id, cards) == [k \in 1..Len(cards) |-> Label(id, cards[k])]

classify_image(image_path) ==
    LET name == Lower(Basename(image_path)) IN
    IF Contains(k_deal_again, name) THEN "deal_again"
    ELSE IF Contains(k_action, name) THEN "action"
    ELSE "unknown"

generate_action_labels ==
    ACTION_BUTTONS
        \o <<Label(FAST_CLASSES.bet_slider, BET_SLIDER),
             Label(FAST_CLASSES.pot_amount, POT_DISPLAY)>>
        \o Labels(FAST_CLASSES.hole_card, HOLE_CARDS)
        \o Labels(FAST_CLASSES.board_card, SubSeq(BOARD_CARDS, 1, 4))

generate_deal_again_labels ==
    <<Label(FAST_CLASSES.btn_deal_again, DEAL_AGAIN),
      Label(FAST_CLASSES.winner_banner, WINNER_BANNER),
      Label(FAST_CLASSES.pot_amount, POT_DISPLAY)>>
        \o Labels(FAST_CLASSES.hole_card, HOLE_CARDS)
        \o Labels(FAST_CLASSES.board_card, BOARD_CARDS)

\* main: the body of the loop for one image
fast_labels_of(image_path) ==
    LET img_type == classify_image(image_path) IN
    [type |-> img_type,
     labels |-> IF img_type = "action" THEN generate_action_labels
                ELSE IF img_type = "deal_again" THEN generate_deal_again_labels
                ELSE generate_action_labels]

\* ---- fastLabel_rive.py
RIVE_CLASSES ==
    [btn_fold |-> 0, btn_check |-> 1, btn_call |-> 2, btn_raise |-> 3,
     btn_deal |-> 4, hole_card |-> 5, board_card |-> 6, pot_amount |-> 7,
     bet_slider |-> 8]

RIVE_BUTTONS ==
    [btn_fold |-> Pos(136400, 815900, 140000, 55000),
     btn_check |-> Pos(136400, 711300, 140000, 55000),
     btn_call |-> Pos(136400, 711300, 140000, 55000),
     btn_raise |-> Pos(431800, 711300, 180000, 55000)]
DEAL_BUTTON == Pos(500000, 575300, 400000, 55000)
POT_DISPLAY_rive == Pos(500000, 420000, 180000, 60000)
BET_SLIDER_rive == Pos(500000, 850000, 800000, 30000)
HOLE_CARDS_rive ==
    <<Pos(420000, 730000, 100000, 100000), Pos(580000, 730000, 100000, 100000)>>
BOARD_CARDS_rive ==
    <<Pos(260000, 500000, 80000, 90000), Pos(380000, 500000, 80000, 90000),
      Pos(500000, 500000, 80000, 90000), Pos(620000, 500000, 80000, 90000),
      Pos(740000, 500000, 80000, 90000)>>

classify_image_rive(image_path) ==
    LET name == Lower(Basename(image_path)) IN
    IF Contains(k_deal, name) /\ (Contains(k_again, name) \/ Contains(k_end, name))
    THEN "deal_again"
    ELSE IF Contains(k_dealt, name) \/ Contains(k_flop, name)
            \/ Contains(k_turn, name) \/ Contains(k_river, name)
    THEN "action_playing"
    ELSE IF Contains(k_start, name) THEN "action_start"
    ELSE IF Contains(k_pre_flop, name) \/ Contains(k_preflop, name)
            \/ Contains(k_action, name)
    THEN "action_playing"
    ELSE "action_playing"

generate_action_labels_rive ==
    <<Label(RIVE_CLASSES.btn_fold, RIVE_BUTTONS.btn_fold),
      Label(RIVE_CLASSES.btn_call, RIVE_BUTTONS.btn_call),
      Label(RIVE_CLASSES.btn_raise, RIVE_BUTTONS.btn_raise),
      Label(RIVE_CLASSES.bet_slider, BET_SLIDER_rive),
      Label(RIVE_CLASSES.pot_amount, POT_DISPLAY_rive)>>
        \o Labels(RIVE_CLASSES.hole_card, HOLE_CARDS_rive)

generate_deal_again_labels_rive ==
    <<Label(RIVE_CLASSES.btn_deal, DEAL_BUTTON),
      Label(RIVE_CLASSES.pot_amount, POT_DISPLAY_rive)>>
        \o Labels(RIVE_CLASSES.hole_card, HOLE_CARDS_rive)

generate_labels_with_board(num_board_cards) ==
    generate_action_labels_rive
        \o Labels(RIVE_CLASSES.board_card,
                  SubSeq(BOARD_CARDS_rive, 1,
                         IF num_board_cards < 5 THEN num_board_cards ELSE 5))

\* the rules of process_images that pick the template, applied to text
BoardRules(text) ==
    IF Contains(k_flop, text) THEN generate_labels_with_board(3)
    ELSE IF Contains(k_turn, text) THEN generate_labels_with_board(4)
    ELSE IF Contains(k_river, text) THEN generate_labels_with_board(5)
    ELSE generate_action_labels_rive

\* process_images: the body of the loop for one image
rive_labels_of(image_path) ==
    LET image_type == classify_image_rive(image_path) IN
    [type |-> image_type,
     labels |-> IF image_type = "deal_again"
                THEN generate_deal_again_labels_rive
                ELSE BoardRules(Lower(image_path))]

-----------------------------------------------------------------------------
(* The training scripts and fastLabel_rive.py on the dataset directories *)

\* the screenshots in training_data/rive_poker_images
RiveImages == [s \in Stems |-> IF s = 1 THEN n_action ELSE n_flop]

\* "if not dest.exists(): dest.write_text(label_file.read_text())" for
\* every label file of the labels directory
CopyLabels(from, to) ==
    [s \in Stems |-> IF from[s].exists /\ ~to[s].exists THEN from[s] ELSE to[s]]

\* files matching labels_dir.glob("*.txt"), classes.txt included
LabelCount(files, manifest) ==
    Cardinality({s \in Stems : files[s].exists})
        + (IF manifest # NoManifest THEN 1 ELSE 0)

\* train_yolo of train_poker.py and of train_rive_poker.py, up to the
\* start of the training
TrainYolo(script, dataset, yaml, files) ==
    /\ RunOver /\ runs < MaxRuns
    /\ runs' = runs + 1
    /\ tool' = script
    /\ ResetCounters
    /\ UNCHANGED <<labels, modelCalls, rlabels, classes_txt, configs>>
    /\ \E ultralytics \in BOOLEAN :
          IF ~ultralytics
          THEN pc' = "exited" /\ UNCHANGED <<copies, told>>
          ELSE IF yaml \notin configs
          THEN /\ pc' = "exited"
               /\ told' = [told EXCEPT ![dataset] = "told"]
               /\ UNCHANGED copies
          ELSE IF LabelCount(files, classes_txt[dataset]) = 0
          THEN pc' = "exited" /\ UNCHANGED <<copies, told>>
          ELSE /\ copies' = [copies EXCEPT
                    ![dataset].files = CopyLabels(files, @)]
               /\ pc' = "training"
               /\ UNCHANGED told

TrainPoker == TrainYolo("train_poker", "poker", poker_data_yaml, labels)
TrainRivePoker ==
    TrainYolo("train_rive_poker", "rive", rive_poker_data_yaml, rlabels)

\* fastLabel_rive.py process_images, run from /app
FastLabelRiveRun ==
    /\ RunOver /\ runs < MaxRuns
    /\ runs' = runs + 1
    /\ tool' = "fastLabel_rive" /\ pc' = "done"
    /\ ResetCounters
    /\ LET written == [s \in Stems |->
                          Written("fastLabel_rive",
                              rive_labels_of(d_app \o s_rive_images_dir
                                             \o RiveImages[s]).labels)]
       IN  /\ rlabels' = written
           /\ copies' = [copies EXCEPT
                  !["rive"].files = CopyLabels(written, @),
                  !["rive"].classes = IF @ = NoManifest
                                      THEN classes_txt["rive"] ELSE @]
    /\ classes_txt' = [classes_txt EXCEPT !["rive"] = ClassesTxt(RIVE_CLASSES)]
    /\ told' = Labeled("rive")
    /\ UNCHANGED <<labels, modelCalls, configs>>

-----------------------------------------------------------------------------
(* The entry point of train_poker.py: validate_labels, then train_yolo *)

NoText == [exists |-> FALSE, text |-> <<>>]
TextFile(text) == [exists |-> TRUE, text |-> text]

\* lines a label file may hold; the numbers are written as the labelers
\* write them, so that int() and float() read them as IsInt and IsFloat do
l_valid == FormatLine(Line(1, 500000, 250000, 100000, 50000))
l_full == FormatLine(Line(10, 0, 1000000, 1000000, 1000000))
l_flat == FormatLine(Line(0, 500000, 500000, 0, 500000))
l_class11 == FormatLine(Line(11, 500000, 500000, 100000, 100000))
l_wide == FormatLine(Line(2, 500000, 500000, 1500000, 100000))
l_four == <<"3", " ", "0", ".", "5", " ", "0", ".", "5", " ", "0", ".", "5">>
l_word ==
    <<"c", "a", "r", "d", " ", "0", ".", "5", " ", "0", ".", "5", " ",
      "0", ".", "5", " ", "0", ".", "5">>
l_negative ==
    <<"4", " ", "-", "0", ".", "5", " ", "0", ".", "5", " ", "0", ".", "5",
      " ", "0", ".", "5">>
l_blank == <<>>
SampleLines ==
    {l_valid, l_full, l_flat, l_class11, l_wide, l_four, l_word, l_negative,
     l_blank}

\* the text of a file of the given lines, each ended by a newline
RECURSIVE TextOf(_)
TextOf(lines) ==
    IF lines = <<>> THEN <<>>
    ELSE Head(lines) \o <<"\n">> \o TextOf(Tail(lines))

SampleFiles ==
    {NoText} \cup {TextFile(TextOf(ls)) : ls \in SeqsUpTo(SampleLines, MaxLines)}

\* the files the directory holds beside the first
OtherFiles ==
    {NoText, TextFile(TextOf(<<l_valid>>)), TextFile(TextOf(<<l_word, l_class11>>)),
     TextFile(TextOf(<<l_four, l_valid>>))}

Arguments ==
    {<<>>, <<"--validate">>, <<"--force">>, <<"--validate", "--force">>,
     <<"--fast", "--force">>, <<"--force", "--validate">>}

NoCount == [valid |-> 0, invalid |-> 0]
CountValid(count) == [count EXCEPT !.valid = @ + 1]
CountInvalid(count) == [count EXCEPT !.invalid = @ + 1]

\* the lines of one open label file, from "for line_num, line in
\* enumerate(f, 1)" on; int() or float() raising ends the file with one
\* more invalid
RECURSIVE CheckLines(_, _)
CheckLines(lines, count) ==
    IF lines = <<>> THEN count
    ELSE LET parts == SplitFields(Head(lines), <<>>) IN
         IF Len(parts) # 5 THEN CheckLines(Tail(lines), CountInvalid(count))
         ELSE IF ~IsInt(parts[1]) \/ \E k \in 2..5 : ~IsFloat(parts[k])
         THEN CountInvalid(count)
         ELSE LET class_id == IntOf(parts[1])
                  coords == [k \in 1..4 |-> FloatOf(parts[k + 1])]
              IN  IF class_id < 0 \/ class_id > 10
                  THEN CheckLines(Tail(lines), CountInvalid(count))
                  ELSE IF \E k \in 1..4 : coords[k] < 0 \/ coords[k] > Micro
                  THEN CheckLines(Tail(lines), CountInvalid(count))
                  ELSE CheckLines(Tail(lines), CountValid(count))

\* the files of labels_dir.glob("*.txt") from stem s on; classes.txt is
\* passed over
RECURSIVE CheckFiles(_, _, _)
CheckFiles(files, s, count) ==
    IF s > NumImages THEN count
    ELSE IF ~files[s].exists THEN CheckFiles(files, s + 1, count)
    ELSE CheckFiles(files, s + 1,
             CheckLines(FileLines(files[s].text, <<>>), count))

\* validate_labels(): the two counters; it returns invalid == 0
validate_labels(files) == CheckFiles(files, 1, NoCount)

Returned(count) == count.invalid = 0

\* the flag anywhere on the command line
FirstArgument_any(args, flag) == \E k \in 1..Len(args) : args[k] = flag

\* len(sys.argv) > 1 and sys.argv[1] == flag
FirstArgument(args, flag) == Len(args) > 0 /\ args[1] = flag

\* train_yolo() called by the entry point, up to the start of the training
CallTrainYolo ==
    /\ calls' = Append(calls, "train_yolo")
    /\ \E ultralytics \in BOOLEAN :
          IF ~ultralytics \/ ~lyaml \/ LabelCount(ldir, lclasses) = 0
          THEN mpc' = "exited" /\ UNCHANGED lcopies
          ELSE lcopies' = CopyLabels(ldir, lcopies) /\ mpc' = "training"

\* the call of validate_labels() either branch of the entry point makes
ValidateLabels ==
    /\ mpc = "start"
    /\ vret' = validate_labels(ldir)
    /\ calls' = Append(calls, "validate_labels")
    /\ mpc' = "validated"
    /\ UNCHANGED <<argv, ldir, lclasses, lyaml, lcopies>>

\* what the entry point does with the value validate_labels() returned
AfterValidation ==
    /\ mpc = "validated"
    /\ UNCHANGED <<argv, ldir, lclasses, lyaml, vret>>
    /\ IF FirstArgument(argv, "--validate")
       THEN mpc' = "end" /\ UNCHANGED <<calls, lcopies>>
       ELSE IF Returned(vret)
       THEN CallTrainYolo
       ELSE IF FirstArgument(argv, "--force")
       THEN CallTrainYolo
       ELSE mpc' = "end" /\ UNCHANGED <<calls, lcopies>>

-----------------------------------------------------------------------------
(* train_card_detector.py: generate_training_image *)

\* CARD_CLASSES, for the three cards of the model
CARD_CLASSES ==
    [c \in {"ace_of_spades", "2_of_clubs", "card_back"} |->
        IF c = "ace_of_spades" THEN 0 ELSE IF c = "2_of_clubs" THEN 51 ELSE 52]

\* the card images in CARDS_DIR, by width and height in cells; there is
\* no file for 2_of_clubs
NoImage == <<>>
CardFiles ==
    [c \in DOMAIN CARD_CLASSES |->
        IF c = "ace_of_spades" THEN <<2, 2>>
        ELSE IF c = "card_back" THEN <<4, 4>> ELSE NoImage]

\* load_card_image(card_name): None when the file does not exist
load_card_image(card_name) == CardFiles[card_name]

\* augment_card: the rotation with expand=True and the scale of 0.8 to
\* 1.2 leave the card its size or make it one cell larger
augment_card(img) == {img, <<img[1] + 1, img[2] + 1>>}

Rect(x, y, img) == <<x, y, x + img[1], y + img[2]>>

\* the corner of the new rectangle lies in the earlier one
Overlap_corner(new_rect, rect) ==
    /\ new_rect[1] >= rect[1] /\ new_rect[1] < rect[3]
    /\ new_rect[2] >= rect[2] /\ new_rect[2] < rect[4]

\* new_rect[0] < rect[2] and new_rect[2] > rect[0] and
\* new_rect[1] < rect[3] and new_rect[3] > rect[1]
Overlap(new_rect, rect) ==
    /\ new_rect[1] < rect[3] /\ new_rect[3] > rect[1]
    /\ new_rect[2] < rect[4] /\ new_rect[4] > rect[2]

\* f"{v:.6f}" of num / den, in units of 1e-6
Ratio6(num, den) == ((2 * num * Micro) + den) \div (2 * den)

\* the YOLO label of the card placed at (x, y)
CardLabel(id, x, y, img) ==
    Line(id, Ratio6((2 * x) + img[1], 2 * GridWidth),
             Ratio6((2 * y) + img[2], 2 * GridHeight),
             Ratio6(img[1], GridWidth), Ratio6(img[2], GridHeight))

\* placement attempts for one card
max_attempts == 20

\* the next iteration of "for _ in range(num_cards)": a card is chosen,
\* loaded and augmented; after the last iteration the function returns
ChooseCard ==
    /\ gpc = "cards"
    /\ UNCHANGED <<num_cards, card_names, placed_rects, card_labels>>
    /\ IF done_cards = num_cards
       THEN gpc' = "returned" /\ UNCHANGED <<done_cards, card_img, card_class, attempts, outcome>>
       ELSE \E card_name \in card_names :
              IF load_card_image(card_name) = NoImage
              THEN /\ done_cards' = done_cards + 1
                   /\ outcome' = Append(outcome, "missing")
                   /\ UNCHANGED <<card_img, card_class, attempts, gpc>>
              ELSE /\ card_img' \in augment_card(load_card_image(card_name))
                   /\ card_class' = CARD_CLASSES[card_name]
                   /\ attempts' = 0
                   /\ gpc' = "placing"
                   /\ UNCHANGED <<done_cards, outcome>>

\* one pass of "for _ in range(max_attempts)"; random.randint raises for
\* a card larger than the background
Attempt ==
    /\ gpc = "placing" /\ attempts < max_attempts
    /\ UNCHANGED <<num_cards, card_names, card_img, card_class>>
    /\ IF card_img[1] > GridWidth \/ card_img[2] > GridHeight
       THEN /\ gpc' = "raised"
            /\ UNCHANGED <<done_cards, attempts, placed_rects, card_labels, outcome>>
       ELSE \E x \in 0..(GridWidth - card_img[1]),
               y \in 0..(GridHeight - card_img[2]) :
              LET new_rect == Rect(x, y, card_img) IN
              IF \E k \in 1..Len(placed_rects) : Overlap(new_rect, placed_rects[k])
              THEN /\ attempts' = attempts + 1
                   /\ UNCHANGED <<done_cards, placed_rects, card_labels, outcome, gpc>>
              ELSE /\ placed_rects' = Append(placed_rects, new_rect)
                   /\ card_labels' = Append(card_labels, CardLabel(card_class, x, y, card_img))
                   /\ done_cards' = done_cards + 1
                   /\ outcome' = Append(outcome, "placed")
                   /\ gpc' = "cards"
                   /\ UNCHANGED attempts

\* the else of the for loop: no position found, the card is passed over
GiveUp ==
    /\ gpc = "placing" /\ attempts = max_attempts
    /\ done_cards' = done_cards + 1
    /\ outcome' = Append(outcome, "skipped")
    /\ gpc' = "cards"
    /\ UNCHANGED <<num_cards, card_names, card_img, card_class, attempts,
                   placed_rects, card_labels>>

-----------------------------------------------------------------------------
(* The services: detector/main.py, sam3/main.py, dinov3/main.py *)

Services == {"detector", "sam3", "dinov3"}

\* the lazily loaded handle: None before the first load
\* detector: get_model; canLoad tells whether YOLO(model_path) succeeds

\* a get_model that tries again after a failed load
get_model_retry(h, canLoad) ==
    IF h \in {"unloaded", "mock"} THEN (IF canLoad THEN "loaded" ELSE "mock")
    ELSE h

get_model(h, canLoad) ==
    IF h = "unloaded" THEN (IF canLoad THEN "loaded" ELSE "mock")
    ELSE h

\* sam3: get_model; a missing checkpoint and any exception both give "mock"
get_model_sam(h, canLoad) ==
    IF h = "unloaded" THEN (IF canLoad THEN "loaded" ELSE "mock")
    ELSE h

\* dinov3: get_model
get_model_dino(h, canLoad) ==
    IF h = "unloaded" THEN (IF canLoad THEN "loaded" ELSE "mock")
    ELSE h

\* whether the weights can be loaded; a loaded model stays usable
CanLoad(h) == IF h = "loaded" THEN {TRUE} ELSE BOOLEAN

\* one more load attempt when the handle is still None
Attempts(n, h) == IF h = "unloaded" THEN n + 1 ELSE n

\* ---- requests
\* image: absent, "", base64 of an image, text that does not decode to one,
\* base64 of an image that Image.open reads and image.save cannot write
ImageFields == {"none", "empty", "valid", "bad", "unsavable"}
\* image_path: absent, "", no such file, an image file, a file that is no image
PathFields == {"none", "empty", "missing", "valid", "corrupt"}
Truthy(field) == field \notin {"none", "empty"}

\* sizes (width, height) of the images sent, in pixels
Dims == {<<4, 3>>, <<7, 5>>}
NoBox == [given |-> FALSE, x |-> 0, y |-> 0, w |-> 0, h |-> 0]
BBox(x, y, w, h) == [given |-> TRUE, x |-> x, y |-> y, w |-> w, h |-> h]
NoPoint == [given |-> FALSE, x |-> 0, y |-> 0]
ClickPoint(x, y) == [given |-> TRUE, x |-> x, y |-> y]
Boxes == {NoBox, BBox(1, 0, 3, 2)}
Points == {NoPoint, ClickPoint(3, 1)}
\* conf_threshold, in hundredths
Thresholds == {30, 90}

\* the image and image_path sent together: every path without an image,
\* and every image without a path or with the path of a missing file
Sources ==
    {src \in [image : ImageFields, image_path : PathFields] :
        Truthy(src.image) => src.image_path \in {"none", "missing"}}

DetectRequests ==
    {r \in [image : ImageFields, image_path : PathFields,
            conf_threshold : Thresholds,
            dims : {<<4, 3>>}, coarse_bbox : {NoBox}, point : {NoPoint}] :
        [image |-> r.image, image_path |-> r.image_path] \in Sources}
SegmentRequests ==
    {r \in [image : ImageFields, image_path : PathFields, conf_threshold : {30},
            dims : Dims, coarse_bbox : Boxes, point : Points] :
        [image |-> r.image, image_path |-> r.image_path] \in Sources}
\* EmbedRequest.image_path is a required string
EmbedRequests ==
    [image : {"none"}, image_path : PathFields \ {"none"}, conf_threshold : {30},
     dims : {<<4, 3>>}, coarse_bbox : {NoBox}, point : {NoPoint}]
NoRequest ==
    [image |-> "none", image_path |-> "none", conf_threshold |-> 30,
     dims |-> <<4, 3>>, coarse_bbox |-> NoBox, point |-> NoPoint]

\* ---- answers
NoBody == [kind |-> "none", detections |-> <<>>, count |-> 0,
           click_point |-> NoPoint, dimensions |-> 0, model_loaded |-> FALSE]
HTTPException(status_code) == [status |-> status_code, body |-> NoBody]
Ok(body) == [status |-> 200, body |-> body]

CandidateElement(id, text, x, y, w, h, confidence) ==
    [id |-> id, type |-> "button", text |-> text, role |-> "button",
     bbox |-> BBox(x, y, w, h), confidence |-> confidence]

\* a mock list without its last element
MockDetections_five ==
    <<CandidateElement("el_01", "SPIN", 540, 383, 200, 60, 95),
      CandidateElement("el_02", "+", 730, 470, 50, 50, 92),
      CandidateElement("el_03", "-", 490, 470, 50, 50, 91),
      CandidateElement("el_04", "DEAL", 565, 455, 150, 50, 90),
      CandidateElement("el_05", "HIT", 500, 455, 100, 50, 89)>>

\* detect: the mock elements
MockDetections ==
    <<CandidateElement("el_01", "SPIN", 540, 383, 200, 60, 95),
      CandidateElement("el_02", "+", 730, 470, 50, 50, 92),
      CandidateElement("el_03", "-", 490, 470, 50, 50, 91),
      CandidateElement("el_04", "DEAL", 565, 455, 150, 50, 90),
      CandidateElement("el_05", "HIT", 500, 455, 100, 50, 89),
      CandidateElement("el_06", "STAND", 660, 455, 100, 50, 88)>>

\* ---- the loaded detector
s_btn_check == <<"b","t","n","_","c","h","e","c","k">>
s_btn_call  == <<"b","t","n","_","c","a","l","l">>
s_btn_deal  == <<"b","t","n","_","d","e","a","l">>
s_person    == <<"p","e","r","s","o","n">>
s_bicycle   == <<"b","i","c","y","c","l","e">>
s_tv        == <<"t","v">>
s_cell_phone == <<"c","e","l","l"," ","p","h","o","n","e">>
s_book      == <<"b","o","o","k">>
s_keyboard  == <<"k","e","y","b","o","a","r","d">>
s_remote    == <<"r","e","m","o","t","e">>
s_laptop    == <<"l","a","p","t","o","p">>
s_mouse     == <<"m","o","u","s","e">>
s_dog       == <<"d","o","g">>
s_unknown   == <<"u","n","k","n","o","w","n">>
k_button    == <<"b","u","t","t","o","n">>
k_card      == <<"c","a","r","d">>

NoType == "None"
UI_TYPE_MAPPING ==
    [name \in {s_person, s_cell_phone, s_keyboard, s_remote, s_book, s_tv,
                s_laptop, s_mouse} |->
        CASE name = s_person -> NoType
          [] name = s_cell_phone -> "button"
          [] name = s_keyboard -> "textbox"
          [] name = s_remote -> "button"
          [] name = s_book -> "card"
          [] name = s_tv -> "container"
          [] name = s_laptop -> "container"
          [] name = s_mouse -> "icon"]

POKER_CLASSES ==
    [id \in 0..8 |->
        <<s_btn_fold, s_btn_check, s_btn_call, s_btn_raise, s_btn_deal,
          s_hole_card, s_board_card, s_pot_amount, s_bet_slider>>[id + 1]]

\* dict.get(key, default)
Get(dict, key, default) == IF key \in DOMAIN dict THEN dict[key] ELSE default

\* result.names of the models that may be loaded: the COCO weights
\* (yolov8n.pt), the poker weights, weights of some other vocabulary
ModelNames ==
    [coco |-> (0 :> s_person) @@ (1 :> s_bicycle) @@ (62 :> s_tv)
                 @@ (63 :> s_laptop) @@ (64 :> s_mouse) @@ (65 :> s_remote)
                 @@ (66 :> s_keyboard) @@ (67 :> s_cell_phone) @@ (73 :> s_book),
     poker |-> POKER_CLASSES,
     other |-> (9 :> s_tv) @@ (10 :> s_dog) @@ (12 :> s_person)]

\* one box of result.boxes: class id, confidence in hundredths, corners
Box(cls, conf, x1, y1, x2, y2) ==
    [cls |-> cls, conf |-> conf, x1 |-> x1, y1 |-> y1, x2 |-> x2, y2 |-> y2]

\* the boxes a model may return for an image, whatever the threshold
ManyBoxes == [j \in 1..22 |-> Box(IF j % 2 = 0 THEN 67 ELSE 73,
                                   30 + (((j - 1) * 37) % 60), j, 0, j + 2, 3)]
Results ==
    { [names |-> "coco", boxes |-> <<>>],
      [names |-> "coco", boxes |-> <<Box(0, 90, 0, 0, 2, 3), Box(62, 50, 1, 1, 3, 2)>>],
      [names |-> "coco", boxes |-> <<Box(67, 40, 0, 0, 2, 2), Box(1, 95, 1, 0, 3, 2),
                                       Box(20, 95, 0, 1, 2, 3)>>],
      [names |-> "coco", boxes |-> ManyBoxes],
      [names |-> "poker", boxes |-> <<Box(2, 70, 0, 0, 2, 2), Box(0, 40, 1, 1, 3, 2)>>],
      [names |-> "other", boxes |-> <<Box(12, 95, 0, 0, 2, 3), Box(9, 60, 1, 1, 3, 2),
                                        Box(10, 35, 0, 0, 1, 1)>>] }

\* detector(image_path, conf=...): the boxes above the threshold
Predict(found, conf_threshold) ==
    [found EXCEPT !.boxes = SelectSeq(@, LAMBDA b : b.conf > conf_threshold)]

is_poker_model(names) ==
    \E id \in DOMAIN names :
        Contains(k_button, Lower(names[id])) \/ Contains(k_card, Lower(names[id]))

\* f"el_{i:02d}_{j:02d}"
ElementId(i, j) ==
    "el_" \o DigitChars[(i \div 10) + 1] \o DigitChars[(i % 10) + 1] \o "_"
          \o DigitChars[(j \div 10) + 1] \o DigitChars[(j % 10) + 1]

\* the class name and type given to one box; poker is is_poker_model,
\* worked out once before the loop
NameAndType(names, poker, box) ==
    IF poker \/ box.cls \in DOMAIN POKER_CLASSES
    THEN LET ui_type == Get(POKER_CLASSES, box.cls, s_unknown)
         IN  [class_name |-> ui_type, ui_type |-> ui_type]
    ELSE LET class_name == Get(names, box.cls, s_unknown)
         IN  [class_name |-> class_name,
              ui_type |-> Get(UI_TYPE_MAPPING, class_name, "button")]

\* the loop over result.boxes: the elements of boxes 1..n, in order
RECURSIVE ElementsOf(_, _, _, _)
ElementsOf(names, poker, boxes, n) ==
    IF n = 0 THEN <<>>
    ELSE LET box == boxes[n]
             nt == NameAndType(names, poker, box)
             rest == ElementsOf(names, poker, boxes, n - 1)
         IN  IF nt.ui_type = NoType THEN rest
             ELSE Append(rest,
                    [id |-> ElementId(0, n - 1), type |-> nt.ui_type,
                     text |-> nt.class_name, role |-> nt.ui_type,
                     bbox |-> BBox(box.x1, box.y1, box.x2 - box.x1, box.y2 - box.y1),
                     confidence |-> box.conf])

\* a sort that leaves the elements in detection order
SortByConfidence_unsorted(elements) == elements

\* elements.sort(key=confidence, reverse=True): stable, highest first
RECURSIVE SortByConfidence(_)
SortByConfidence(elements) ==
    IF elements = <<>> THEN <<>>
    ELSE LET e == elements[Len(elements)]
             sorted == SortByConfidence(SubSeq(elements, 1, Len(elements) - 1))
             ahead == Cardinality({k \in 1..Len(sorted) :
                                      sorted[k].confidence >= e.confidence})
         IN  SubSeq(sorted, 1, ahead) \o <<e>> \o SubSeq(sorted, ahead + 1, Len(sorted))

\* elements[:20]
TopLimit == 20
Limit(elements) ==
    IF Len(elements) > TopLimit THEN SubSeq(elements, 1, TopLimit) ELSE elements

\* what detect returns with a loaded model
RealDetections(found, conf_threshold) ==
    LET results == Predict(found, conf_threshold)
        names == ModelNames[results.names]
        poker == is_poker_model(names)
    IN  Limit(SortByConfidence(ElementsOf(names, poker, results.boxes,
                                          Len(results.boxes))))

DetectResponse(kind, detections, count) ==
    Ok([NoBody EXCEPT !.kind = kind, !.detections = detections, !.count = count])

SegmentResponse(kind, x, y) ==
    Ok([NoBody EXCEPT !.kind = kind, !.click_point = ClickPoint(x, y)])

EmbedResponse(kind, dimensions) ==
    Ok([NoBody EXCEPT !.kind = kind, !.dimensions = dimensions])

\* a "try" that takes any image_path as it is
ImageAtHand_unchecked(r) ==
    IF Truthy(r.image)
    THEN (IF r.image \in {"bad", "unsavable"} THEN 500 ELSE 0)
    ELSE IF Truthy(r.image_path) THEN 0
    ELSE 400

\* what the "try" of detect and segment does before the model is asked for:
\* 0 when an image is at hand, else the status of the exception
ImageAtHand(r) ==
    IF Truthy(r.image)
    THEN (IF r.image \in {"bad", "unsavable"} THEN 500 ELSE 0)
    ELSE IF Truthy(r.image_path)
    THEN (IF r.image_path = "missing" THEN 404 ELSE 0)
    ELSE 400

\* the temporary file of the request: made once the image is decoded and
\* opened, before image.save; 0 when none is made
TempFile(r, n) ==
    IF Truthy(r.image) /\ r.image # "bad" THEN n ELSE 0

\* a handler that leaves its temporary file behind
unlink_temp_never(files, temp_file) == files

\* the "finally" of detect and segment
unlink_temp(files, temp_file) ==
    IF temp_file # 0 /\ temp_file \in files THEN files \ {temp_file} ELSE files

\* the file the model is run on is an image
Readable(r) == Truthy(r.image) \/ r.image_path = "valid"

\* detector: detect; the answer and the handle after it
detect(r, h, canLoad, found) ==
    IF ImageAtHand(r) # 0
    THEN [resp |-> HTTPException(ImageAtHand(r)), handle |-> h, asked |-> FALSE]
    ELSE LET detector == get_model(h, canLoad) IN
         [handle |-> detector, asked |-> TRUE,
          resp |-> IF detector = "mock"
                   THEN DetectResponse("mock", MockDetections, 6)
                   ELSE IF ~Readable(r) THEN HTTPException(500)
                   ELSE LET elements == RealDetections(found, r.conf_threshold)
                        IN  DetectResponse("real", elements, Len(elements))]

\* sam3: masks the predictor returns for an image: sets of pixels <<x, y>>
Masks == { {}, {<<1, 1>>}, {<<0, 0>>, <<3, 2>>}, {<<0, 0>>, <<1, 0>>, <<3, 2>>} }

RECURSIVE SumOf(_, _)
SumOf(S, i) ==
    IF S = {} THEN 0
    ELSE LET p == CHOOSE q \in S : TRUE IN p[i] + SumOf(S \ {p}, i)

\* int(np.mean(coords)) of non-negative coordinates
MeanOf(S, i) == SumOf(S, i) \div Cardinality(S)

\* segment: the branch taken in mock mode
MockClick(r) ==
    IF r.coarse_bbox.given
    THEN SegmentResponse("mock", r.coarse_bbox.x + r.coarse_bbox.w \div 2,
                         r.coarse_bbox.y + r.coarse_bbox.h \div 2)
    ELSE IF r.point.given THEN SegmentResponse("mock", r.point.x, r.point.y)
    ELSE SegmentResponse("mock", 640, 413)

\* segment: the click point for the best mask
MaskClick(r, mask) ==
    IF mask # {}
    THEN SegmentResponse("real", MeanOf(mask, 1), MeanOf(mask, 2))
    ELSE IF r.coarse_bbox.given
    THEN SegmentResponse("real", r.coarse_bbox.x + r.coarse_bbox.w \div 2,
                         r.coarse_bbox.y + r.coarse_bbox.h \div 2)
    ELSE SegmentResponse("real", r.dims[1] \div 2, r.dims[2] \div 2)

segment(r, h, canLoad, mask) ==
    IF ImageAtHand(r) # 0
    THEN [resp |-> HTTPException(ImageAtHand(r)), handle |-> h, asked |-> FALSE]
    ELSE LET model == get_model_sam(h, canLoad) IN
         [handle |-> model, asked |-> TRUE,
          resp |-> IF model = "mock" THEN MockClick(r)
                   ELSE IF ~Readable(r) THEN HTTPException(500)
                   ELSE MaskClick(r, mask)]

\* dinov3: embed
embed(r, h, canLoad) ==
    IF r.image_path \notin {"valid", "corrupt"}
    THEN [resp |-> HTTPException(404), handle |-> h, asked |-> FALSE]
    ELSE LET dino_model == get_model_dino(h, canLoad) IN
         [handle |-> dino_model, asked |-> TRUE,
          resp |-> IF dino_model = "mock" THEN EmbedResponse("mock", 768)
                   ELSE IF r.image_path = "corrupt" THEN HTTPException(500)
                   ELSE EmbedResponse("real", 768)]

\* health of the three services
health(svc, h) ==
    Ok([NoBody EXCEPT !.kind = "health",
           !.model_loaded = IF svc = "dinov3" THEN h # "unloaded"
                            ELSE h \notin {"unloaded", "mock"}])

\* ---- the handlers as steps of a service process
Answered(svc, endpoint, r, model_out, out) ==
    /\ nreq < MaxRequests
    /\ nreq' = nreq + 1
    /\ handle' = [handle EXCEPT ![svc] = out.handle]
    /\ loads' = [loads EXCEPT
                   ![svc] = IF out.asked THEN Attempts(@, handle[svc]) ELSE @]
    /\ LET temp_file == IF endpoint \in {"detect", "segment"}
                         THEN TempFile(r, nreq + 1) ELSE 0
       IN  /\ last' = [svc |-> svc, endpoint |-> endpoint, req |-> r,
                       before |-> handle[svc], model_out |-> model_out,
                       temp |-> temp_file, resp |-> out.resp]
           /\ tmpdir' = unlink_temp(IF temp_file # 0
                                    THEN tmpdir \cup {temp_file} ELSE tmpdir,
                                    temp_file)

Detect ==
    \E r \in DetectRequests, canLoad \in CanLoad(handle["detector"]),
       found \in Results :
        Answered("detector", "detect", r, found,
                 detect(r, handle["detector"], canLoad, found))

Segment ==
    \E r \in SegmentRequests, canLoad \in CanLoad(handle["sam3"]),
       mask \in Masks :
        Answered("sam3", "segment", r, mask,
                 segment(r, handle["sam3"], canLoad, mask))

Embed ==
    \E r \in EmbedRequests, canLoad \in CanLoad(handle["dinov3"]) :
        Answered("dinov3", "embed", r, {},
                 embed(r, handle["dinov3"], canLoad))

Health ==
    \E svc \in Services :
        Answered(svc, "health", NoRequest, {},
                 [resp |-> health(svc, handle[svc]), handle |-> handle[svc],
                  asked |-> FALSE])

\* /info of sam3 and dinov3 asks for the model
Info ==
    \E svc \in {"sam3", "dinov3"} : \E canLoad \in CanLoad(handle[svc]) :
        LET h == IF svc = "sam3" THEN get_model_sam(handle[svc], canLoad)
                 ELSE get_model_dino(handle[svc], canLoad)
        IN  Answered(svc, "info", NoRequest, {},
                     [resp |-> Ok([NoBody EXCEPT !.kind = h]), handle |-> h,
                      asked |-> TRUE])

-----------------------------------------------------------------------------
(* Specifications *)

vars == <<convVars, parseVars, pipeVars, templVars, svcVars, toolVars>>

ParserIdle ==
    /\ presp = <<>>
    /\ ppc = "off"
    /\ pres = Return("none", EmptyList)

ConvIdle ==
    /\ cbefore = <<>> /\ cafter = <<>> /\ cdet = NonObject
    /\ cimg = <<100, 200>> /\ ctie = FALSE /\ cpc = "off"
    /\ cout = [raised |-> FALSE, lines |-> NoLines]
    /\ cfile = NoFile

\* nothing labeled, copied or told yet
DataIdle ==
    /\ rlabels = [s \in Stems |-> Absent]
    /\ classes_txt = [d \in Datasets |-> NoManifest]
    /\ copies = [d \in Datasets |-> NoCopies]
    /\ told = [d \in Datasets |-> "no"]

RunsIdle ==
    /\ labels = [s \in Stems |-> Absent]
    /\ tool = "none" /\ pc = "idle" /\ idx = 1 /\ runs = 0 /\ modelCalls = 0
    /\ ret = [s \in Stems |-> "pending"] /\ zero = {}
    /\ labeled = 0 /\ skipped = 0 /\ empty = 0 /\ total_detections = 0
    /\ processed = 0 /\ total_labels = 0

PipeIdle == RunsIdle /\ DataIdle /\ configs = {}

SvcIdle ==
    /\ handle = [svc \in Services |-> "unloaded"]
    /\ loads = [svc \in Services |-> 0]
    /\ nreq = 0
    /\ last = [svc |-> "none", endpoint |-> "none", req |-> NoRequest,
               before |-> "unloaded", model_out |-> {}, temp |-> 0,
               resp |-> Ok(NoBody)]
    /\ tmpdir = {}

TrainIdle ==
    /\ argv = <<>> /\ ldir = [s \in Stems |-> NoText]
    /\ lclasses = NoManifest /\ lyaml = FALSE
    /\ lcopies = [s \in Stems |-> NoText]
    /\ calls = <<>> /\ vret = NoCount /\ mpc = "off"

GenIdle ==
    /\ num_cards = 0 /\ card_names = {} /\ done_cards = 0
    /\ card_img = NoImage /\ card_class = 0 /\ attempts = 0
    /\ placed_rects = <<>> /\ card_labels = <<>> /\ outcome = <<>>
    /\ gpc = "off"

ToolsIdle == TrainIdle /\ GenIdle

TemplIdle ==
    /\ tparent = <<>> /\ tname = <<>> /\ tpc = "off"
    /\ tout = [type |-> "none", labels |-> NoLines]

\* the labeling runs, from an empty labels directory
\* the checkout may or may not hold the configs the training scripts read
Init ==
    /\ RunsIdle /\ DataIdle
    /\ configs \in SUBSET {poker_data_yaml, rive_poker_data_yaml}
    /\ ConvIdle /\ ParserIdle /\ TemplIdle /\ SvcIdle /\ ToolsIdle

Next ==
    \/ StartAutoLabel /\ UNCHANGED <<dataVars, convVars, parseVars, templVars, svcVars, toolVars>>
    \/ StartAutoLabelPoker /\ UNCHANGED <<dataVars, convVars, parseVars, templVars, svcVars, toolVars>>
    \/ ProcessImageA /\ UNCHANGED <<dataVars, convVars, parseVars, templVars, svcVars, toolVars>>
    \/ ProcessImagePoker /\ UNCHANGED <<dataVars, convVars, parseVars, templVars, svcVars, toolVars>>
    \/ Summary /\ UNCHANGED <<convVars, parseVars, templVars, svcVars, toolVars>>
    \/ TrainPoker /\ UNCHANGED <<convVars, parseVars, templVars, svcVars, toolVars>>
    \/ TrainRivePoker /\ UNCHANGED <<convVars, parseVars, templVars, svcVars, toolVars>>
    \/ FastLabelRiveRun /\ UNCHANGED <<convVars, parseVars, templVars, svcVars, toolVars>>

Spec == Init /\ [][Next]_vars

\* the normalizers applied to a list of detections
InitConv ==
    /\ cbefore \in SeqsUpTo({Neighbour}, MaxCtx)
    /\ cafter \in SeqsUpTo({Neighbour}, MaxCtx)
    /\ cdet \in FracDets \cup PixelDets \cup MalformedDets
    /\ cimg \in ImgSizes
    /\ ctie \in BOOLEAN
    /\ cpc = "input"
    /\ cout = [raised |-> FALSE, lines |-> NoLines]
    /\ cfile = NoFile
    /\ ParserIdle
    /\ PipeIdle
    /\ TemplIdle
    /\ SvcIdle
    /\ ToolsIdle

CDets == cbefore \o <<cdet>> \o cafter

\* autoLabel.py: yolo_lines = convert_to_yolo(detections, str(image_path))
ConvertA ==
    /\ cpc = "input"
    /\ cout' = convert_to_yolo(CDets, ctie)
    /\ cpc' = "doneA"
    /\ UNCHANGED <<cbefore, cdet, cafter, cimg, ctie, cfile, parseVars, pipeVars, templVars, svcVars, toolVars>>

\* auto_label_poker.py: the conversion loop of process_image
ConvertP ==
    /\ cpc = "input"
    /\ cout' = yolo_labels_of(CDets, cimg, ctie)
    /\ cpc' = "doneP"
    /\ UNCHANGED <<cbefore, cdet, cafter, cimg, ctie, cfile, parseVars, pipeVars, templVars, svcVars, toolVars>>

\* process_image of either script writes the lines into the label file
WriteLabelFile ==
    /\ cpc \in {"doneA", "doneP"} /\ ~cout.raised
    /\ cfile.st = "none"
    /\ cfile' = [st |-> "written", text |-> JoinLines(cout.lines), read |-> <<>>]
    /\ UNCHANGED <<cbefore, cdet, cafter, cimg, ctie, cpc, cout,
                   parseVars, pipeVars, templVars, svcVars, toolVars>>

\* train_poker.py validate_labels reads the file back
ReadLabelFile ==
    /\ cfile.st = "written"
    /\ cfile' = [cfile EXCEPT !.st = "read",
                    !.read = ParsedLabels(FileLines(cfile.text, <<>>), <<>>)]
    /\ UNCHANGED <<cbefore, cdet, cafter, cimg, ctie, cpc, cout,
                   parseVars, pipeVars, templVars, svcVars, toolVars>>

NextConv == ConvertA \/ ConvertP \/ WriteLabelFile \/ ReadLabelFile

SpecConv == InitConv /\ [][NextConv]_vars

\* the parsers applied to a response text
InitParse ==
    /\ presp \in Texts \cup FencedTexts
    /\ ppc = "input"
    /\ pres = Return("none", EmptyList)
    /\ ConvIdle
    /\ PipeIdle
    /\ TemplIdle
    /\ SvcIdle
    /\ ToolsIdle

\* detections = parse_vlm_response(content)
ParseVlm ==
    /\ ppc = "input"
    /\ pres' = parse_vlm_response(presp)
    /\ ppc' = "vlm"
    /\ UNCHANGED <<presp, convVars, pipeVars, templVars, svcVars, toolVars>>

\* return parse_llm_response(content)
ParseLlm ==
    /\ ppc = "input"
    /\ pres' = parse_llm_response(presp)
    /\ ppc' = "llm"
    /\ UNCHANGED <<presp, convVars, pipeVars, templVars, svcVars, toolVars>>

NextParse == ParseVlm \/ ParseLlm

SpecParse == InitParse /\ [][NextParse]_vars

\* the template labelers applied to one image
InitTempl ==
    /\ tparent \in ScriptDirs
    /\ tname \in ImageNames
    /\ tpc = "input"
    /\ tout = [type |-> "none", labels |-> NoLines]
    /\ ConvIdle
    /\ ParserIdle
    /\ PipeIdle
    /\ SvcIdle
    /\ ToolsIdle

\* fastLabel.py main, for the image IMAGES_DIR / tname
FastLabel ==
    /\ tpc = "input"
    /\ tout' = fast_labels_of(tparent \o s_images_dir \o tname)
    /\ tpc' = "fast"
    /\ UNCHANGED <<tparent, tname, convVars, parseVars, pipeVars, svcVars, toolVars>>

\* fastLabel_rive.py process_images, for the image IMAGES_DIR / tname
FastLabelRive ==
    /\ tpc = "input"
    /\ tout' = rive_labels_of(tparent \o s_rive_images_dir \o tname)
    /\ tpc' = "rive"
    /\ UNCHANGED <<tparent, tname, convVars, parseVars, pipeVars, svcVars, toolVars>>

NextTempl == FastLabel \/ FastLabelRive

SpecTempl == InitTempl /\ [][NextTempl]_vars

\* train_poker.py started on a labels directory
InitTrain ==
    /\ argv \in Arguments
    /\ ldir \in {f \in [Stems -> SampleFiles \cup OtherFiles] :
                    /\ f[1] \in SampleFiles
                    /\ \A s \in Stems \ {1} : f[s] \in OtherFiles}
    /\ lclasses \in {NoManifest, ClassesTxt(POKER_UI_CLASSES)}
    /\ lyaml \in BOOLEAN
    /\ lcopies = [s \in Stems |-> NoText]
    /\ calls = <<>> /\ vret = NoCount /\ mpc = "start"
    /\ ConvIdle /\ ParserIdle /\ PipeIdle /\ TemplIdle
    /\ SvcIdle /\ GenIdle

NextTrain ==
    \/ ValidateLabels /\ UNCHANGED <<convVars, parseVars, pipeVars, templVars, svcVars, genVars>>
    \/ AfterValidation /\ UNCHANGED <<convVars, parseVars, pipeVars, templVars, svcVars, genVars>>

SpecTrain == InitTrain /\ [][NextTrain]_vars

\* generate_training_image called for some number of cards; card_back is
\* left out of the names most of the time
InitGen ==
    /\ num_cards \in 2..MaxCards
    /\ card_names \in {DOMAIN CARD_CLASSES, DOMAIN CARD_CLASSES \ {"card_back"}}
    /\ done_cards = 0 /\ card_img = NoImage /\ card_class = 0 /\ attempts = 0
    /\ placed_rects = <<>> /\ card_labels = <<>> /\ outcome = <<>>
    /\ gpc = "cards"
    /\ ConvIdle /\ ParserIdle /\ PipeIdle /\ TemplIdle
    /\ SvcIdle /\ TrainIdle

NextGen ==
    \/ ChooseCard /\ UNCHANGED <<convVars, parseVars, pipeVars, templVars, svcVars, trainVars>>
    \/ Attempt /\ UNCHANGED <<convVars, parseVars, pipeVars, templVars, svcVars, trainVars>>
    \/ GiveUp /\ UNCHANGED <<convVars, parseVars, pipeVars, templVars, svcVars, trainVars>>

SpecGen == InitGen /\ [][NextGen]_vars

\* the three service processes, from their start
InitSvc ==
    SvcIdle /\ ConvIdle /\ ParserIdle /\ PipeIdle /\ TemplIdle /\ ToolsIdle

NextSvc ==
    \/ Detect /\ UNCHANGED <<convVars, parseVars, pipeVars, templVars, toolVars>>
    \/ Segment /\ UNCHANGED <<convVars, parseVars, pipeVars, templVars, toolVars>>
    \/ Embed /\ UNCHANGED <<convVars, parseVars, pipeVars, templVars, toolVars>>
    \/ Health /\ UNCHANGED <<convVars, parseVars, pipeVars, templVars, toolVars>>
    \/ Info /\ UNCHANGED <<convVars, parseVars, pipeVars, templVars, toolVars>>

SpecSvc == InitSvc /\ [][NextSvc]_vars

-----------------------------------------------------------------------------
(* Properties of the batch runs *)

\* C1: when a label file already exists for the image the loop has reached,
\* the writer makes no model call and leaves every label file as it is.
C1_SkipIfExists ==
    [][(pc = "loop" /\ idx <= NumImages /\ labels[idx].exists)
          => (labels' = labels /\ modelCalls' = modelCalls)]_vars

\* C2: an image whose model call gave zero detections has an empty label
\* file and was counted as "empty", and once the summary is printed every
\* image of the list has a label file.
C2_EmptyFileForZeroDetections ==
    /\ \A s \in zero :
          labels[s].exists /\ labels[s].lines = NoLines /\ ret[s] = "empty"
    /\ pc = "done" => \A s \in Stems : labels[s].exists

\* C3: no outcome of a model call for one image (transport error, timeout,
\* non-200 reply, unparseable or malformed response) aborts the run.
C3_RunNeverAborts == pc # "aborted"

ValidLabel(l, by) ==
    /\ l.id \in IF by = "autoLabel"
                 THEN {CLASSES[n] : n \in DOMAIN CLASSES}
                 ELSE {POKER_UI_CLASSES[n] : n \in DOMAIN POKER_UI_CLASSES}
    /\ 0 <= l.x /\ l.x <= Micro
    /\ 0 <= l.y /\ l.y <= Micro
    /\ 0 < l.w /\ l.w <= Micro
    /\ 0 < l.h /\ l.h <= Micro

\* C5: every line of every label file has a class id of the vocabulary of
\* the script that wrote it, a centre in [0, 1] and a width and a height in
\* (0, 1].
C5_WrittenLinesValid ==
    \A s \in Stems : \A k \in 1..Len(labels[s].lines) :
        ValidLabel(labels[s].lines[k], labels[s].by)

-----------------------------------------------------------------------------
(* Properties of the class-name normalizer, seen through convert_to_yolo *)

\* the detection under study has a geometry convert_to_yolo accepts, so
\* that its class alone decides whether and with which id it is written
AcceptedGeometry(d) ==
    /\ IsFrac(d)
    /\ 0 <= d.x /\ d.x <= Unit7 /\ 0 <= d.y /\ d.y <= Unit7
    /\ 0 < d.w /\ d.w <= Unit7 /\ 0 < d.h /\ d.h <= Unit7

\* the substring rules in the order fold, check/call, raise, all-in, deal,
\* winner/banner, hole, board/community, pot, back, slider
RulesFoldFirst(n) ==
    IF Contains(k_fold, n) THEN s_btn_fold
    ELSE IF Contains(k_check, n) \/ Contains(k_call, n) THEN s_btn_check_call
    ELSE IF Contains(k_raise, n) THEN s_btn_raise
    ELSE IF Contains(k_all, n) /\ Contains(k_in, n) THEN s_btn_all_in
    ELSE IF Contains(k_deal, n) THEN s_btn_deal_again
    ELSE IF Contains(k_winner, n) \/ Contains(k_banner, n) THEN s_winner_banner
    ELSE IF Contains(k_hole, n) THEN s_hole_card
    ELSE IF Contains(k_board, n) \/ Contains(k_community, n) THEN s_board_card
    ELSE IF Contains(k_pot, n) THEN s_pot_amount
    ELSE IF Contains(k_back, n) THEN s_card_back
    ELSE IF Contains(k_slider, n) THEN s_bet_slider
    ELSE n

\* C13: the class of a detection is lower-cased, its spaces replaced by
\* underscores, and the rules applied in the order fold, check/call, raise,
\* ...; the first rule that matches names the class the label is written
\* with, and a name no rule matches is used as it is (and dropped when it
\* is not in the vocabulary).
C13_RulesInTableOrder ==
    (cpc = "doneA" /\ AcceptedGeometry(cdet))
    => LET name == RulesFoldFirst(ReplaceSpace(Lower(cdet.cls)))
       IN  IF name \in DOMAIN CLASSES
           THEN OneLineForDet /\ cout.lines[Slot].id = CLASSES[name]
           ELSE NoLineForDet

\* C14: "Check / Call", "CALL" and "check_button" are all written with the
\* id of btn_check_call.
C14_CheckCallVariants ==
    (cpc = "doneA" /\ AcceptedGeometry(cdet)
        /\ cdet.cls \in {r_check_call, r_CALL, r_check_button})
    => (OneLineForDet /\ cout.lines[Slot].id = CLASSES[s_btn_check_call])

C14_Witness ==
    /\ cpc = "doneA" /\ AcceptedGeometry(cdet)
    /\ cdet.cls = r_CALL
    /\ cbefore = <<>>
    /\ Len(cout.lines) = 1 + Len(cafter)
    /\ cout.lines[1].id = 1

-----------------------------------------------------------------------------
(* Properties of the label file format *)

\* C15: the labels written into a label file (one line per label, five
\* fields, six decimals) are read back from its five-field lines as the
\* same (class_id, x, y, w, h) tuples in the same order, and the
\* coordinates read back for a detection are within 1e-6 of the values the
\* model gave.
C15_WriteReadRoundTrip ==
    cfile.st = "read"
    => /\ cfile.read = cout.lines
       /\ (cpc = "doneA" /\ AcceptedGeometry(cdet)
              /\ NormalizeClass(cdet.cls) \in DOMAIN CLASSES)
          => /\ Len(cfile.read) = Len(cbefore) + 1 + Len(cafter)
             /\ cfile.read[Slot].id = CLASSES[NormalizeClass(cdet.cls)]
             /\ Near(cfile.read[Slot].x, cdet.x)
             /\ Near(cfile.read[Slot].y, cdet.y)
             /\ Near(cfile.read[Slot].w, cdet.w)
             /\ Near(cfile.read[Slot].h, cdet.h)

C15_Witness ==
    /\ cfile.st = "read" /\ cpc = "doneA"
    /\ cdet.cls = s_bet_slider /\ AcceptedGeometry(cdet)
    /\ cdet.x = 5000005 /\ cdet.h = 500000
    /\ Len(cbefore) = 1 /\ Len(cafter) = 1
    /\ Len(cfile.read) = 3
    /\ cfile.read[2].id = 10 /\ cfile.read[2].h = 50000

-----------------------------------------------------------------------------
(* Properties of the template labelers *)

\* the template the file name alone selects: deal-again first, then (in
\* fastLabel_rive) flop, turn, river, and the generic action template when
\* no rule matches
TemplateOfName(script, name) ==
    IF script = "fast"
    THEN IF Contains(k_deal_again, name) THEN generate_deal_again_labels
         ELSE generate_action_labels
    ELSE IF Contains(k_deal, name) /\ (Contains(k_again, name) \/ Contains(k_end, name))
         THEN generate_deal_again_labels_rive
         ELSE BoardRules(name)

\* C16: the labels a template labeler writes for an image are those of the
\* template its lower-cased file name selects, first matching rule first,
\* whatever directory the image lies in.
C16_LabelsFromFilenameOnly ==
    tpc \in {"fast", "rive"} => tout.labels = TemplateOfName(tpc, Lower(tname))

-----------------------------------------------------------------------------
(* Properties of the dataset directories *)

VocabularyOf(by) == IF by = "autoLabel" THEN CLASSES ELSE POKER_UI_CLASSES
\* the label files of poker_labels that hold class ids
Labelled == {s \in Stems : labels[s].exists /\ labels[s].lines # NoLines}

\* C21: between runs, the label files of training_data/poker_labels were
\* all written with one vocabulary, and classes.txt, when there is one,
\* lists the names of that vocabulary by ascending class id.
C21_ManifestMatchesLabels ==
    RunOver =>
        /\ \A s, t \in Labelled :
              VocabularyOf(labels[s].by) = VocabularyOf(labels[t].by)
        /\ \A s \in Labelled :
              classes_txt["poker"] # NoManifest
                  => classes_txt["poker"] = ClassesTxt(VocabularyOf(labels[s].by))

\* C24: once a training script has named the labeling script to run for
\* its missing dataset config and that script has then run to its end, the
\* config the training script looks for exists.
C24_LabelingMakesConfig ==
    /\ told["poker"] = "labeled" => poker_data_yaml \in configs
    /\ told["rive"] = "labeled" => rive_poker_data_yaml \in configs

\* every label file of a labels directory has a copy of the same content
\* in the images directory, and classes.txt has none
CopiesAgree(files, dataset) ==
    /\ \A s \in Stems :
          files[s].exists
              => /\ copies[dataset].files[s].exists
                 /\ copies[dataset].files[s].lines = files[s].lines
    /\ copies[dataset].classes = NoManifest

\* C27: after the copy step of train_poker.py, train_rive_poker.py or
\* fastLabel_rive.py, whatever ran before, every label file other than
\* classes.txt has a same-named copy with the same content in the images
\* directory, and classes.txt is not copied.
C27_CopiesMatchLabels ==
    /\ (tool = "train_poker" /\ pc = "training") => CopiesAgree(labels, "poker")
    /\ (tool = "train_rive_poker" /\ pc = "training") => CopiesAgree(rlabels, "rive")
    /\ (tool = "fastLabel_rive" /\ pc = "done") => CopiesAgree(rlabels, "rive")

-----------------------------------------------------------------------------
(* Properties of the entry point of train_poker.py *)

\* a label of the 11-class vocabulary: five fields, an integer class id in
\* 0..10, the centre in [0,1], width and height in (0,1]
ValidLabelLine(line) ==
    LET parts == SplitFields(line, <<>>) IN
    /\ Len(parts) = 5
    /\ IsInt(parts[1]) /\ \A k \in 2..5 : IsFloat(parts[k])
    /\ IntOf(parts[1]) \in 0..10
    /\ \A k \in 2..3 : FloatOf(parts[k]) >= 0 /\ FloatOf(parts[k]) <= Micro
    /\ \A k \in 4..5 : FloatOf(parts[k]) > 0 /\ FloatOf(parts[k]) <= Micro

AllLinesValid ==
    \A s \in Stems :
        ldir[s].exists =>
            LET lines == FileLines(ldir[s].text, <<>>) IN
            \A k \in 1..Len(lines) : ValidLabelLine(lines[k])

\* C22: validate_labels returns True if and only if every line of every
\* label file of the labels directory other than classes.txt is a valid
\* label of the 11-class vocabulary: five fields, an integer class id in
\* 0..10, centre coordinates in [0,1], width and height in (0,1].
C22_ValidateIffAllValid ==
    mpc \in {"validated", "training", "exited", "end"} =>
        (Returned(vret) <=> AllLinesValid)

TrainCalls == {k \in 1..Len(calls) : calls[k] = "train_yolo"}

\* C23: in the entry point of train_poker.py validate_labels is called
\* before train_yolo; train_yolo is called only if validate_labels returned
\* True or the first argument is --force, and never when the first argument
\* is --validate.
C23_TrainingGated ==
    \A k \in TrainCalls :
        /\ \E j \in 1..(k - 1) : calls[j] = "validate_labels"
        /\ Returned(vret) \/ (Len(argv) > 0 /\ argv[1] = "--force")
        /\ ~(Len(argv) > 0 /\ argv[1] = "--validate")

\* training forced past invalid labels
C23_Witness ==
    /\ TrainCalls # {} /\ ~Returned(vret)
    /\ argv = <<"--force", "--validate">>
    /\ mpc = "training"

-----------------------------------------------------------------------------
(* Properties of generate_training_image *)

\* label k describes rectangle k: its centre and size, each off by less
\* than a unit of 1e-6 of the background
Describes(label, rect) ==
    LET near(v, num, den) ==
            /\ (v * den) - (num * Micro) <= den
            /\ (num * Micro) - (v * den) <= den
    IN  /\ near(label.x, rect[1] + rect[3], 2 * GridWidth)
        /\ near(label.y, rect[2] + rect[4], 2 * GridHeight)
        /\ near(label.w, rect[3] - rect[1], GridWidth)
        /\ near(label.h, rect[4] - rect[2], GridHeight)

\* no cell of the background lies in both rectangles
Disjoint(r, q) ==
    ~\E cx \in 0..(GridWidth + 1), cy \in 0..(GridHeight + 1) :
        /\ r[1] <= cx /\ cx < r[3] /\ r[2] <= cy /\ cy < r[4]
        /\ q[1] <= cx /\ cx < q[3] /\ q[2] <= cy /\ cy < q[4]

Inside(r) ==
    /\ 0 <= r[1] /\ r[1] < r[3] /\ r[3] <= GridWidth
    /\ 0 <= r[2] /\ r[2] < r[4] /\ r[4] <= GridHeight

LabelsMatchRects ==
    /\ Len(card_labels) = Len(placed_rects)
    /\ \A k \in 1..Len(placed_rects) : Describes(card_labels[k], placed_rects[k])
    /\ \A j, k \in 1..Len(placed_rects) :
          j # k => Disjoint(placed_rects[j], placed_rects[k])
    /\ \A k \in 1..Len(placed_rects) : Inside(placed_rects[k])
    /\ Len(card_labels) <= num_cards

\* the step taken after max_attempts overlapping attempts places nothing
\* and goes on to the next card
SkippedAfterAttempts ==
    (gpc = "placing" /\ attempts = max_attempts) =>
        /\ placed_rects' = placed_rects /\ card_labels' = card_labels
        /\ done_cards' = done_cards + 1 /\ gpc' = "cards"

\* C26: in generate_training_image the labels correspond one-to-one to the
\* placed rectangles, any two placed rectangles are disjoint, every placed
\* rectangle lies inside the background, a card whose 20 placement attempts
\* all overlap an earlier card is skipped, and the number of labels never
\* exceeds num_cards.
C26_LabelsMatchPlacedCards ==
    [](LabelsMatchRects) /\ [][SkippedAfterAttempts]_vars

\* the image returned with two cards placed and a third passed over after
\* its attempts
C26_Witness ==
    /\ gpc = "returned"
    /\ Len(placed_rects) >= 2
    /\ \E k \in 1..Len(outcome) : outcome[k] = "skipped"

-----------------------------------------------------------------------------
(* Properties of the services *)

\* the last request was one of the image endpoints
ImageEndpoint == last.endpoint \in {"detect", "segment", "embed"}

\* C17, as stated: a request that names an image_path that does not exist
\* is answered with 404, and a /detect or /segment request with neither
\* image_path nor image with 400, in every model state.
C17_ClientErrors ==
    /\ (ImageEndpoint /\ last.req.image_path = "missing")
           => last.resp.status = 404
    /\ (last.endpoint \in {"detect", "segment"}
           /\ ~Truthy(last.req.image) /\ ~Truthy(last.req.image_path))
           => last.resp.status = 400

\* C17, amended: a request that carries no image and names an image_path
\* that does not exist is answered with 404, and a /detect or /segment
\* request with neither image_path nor image with 400, in every model
\* state; an image sent along takes precedence over the path.
C17_ClientErrorsWithoutImage ==
    /\ (ImageEndpoint /\ ~Truthy(last.req.image)
           /\ last.req.image_path = "missing")
           => (last.resp.status = 404 /\ handle[last.svc] = last.before)
    /\ (last.endpoint \in {"detect", "segment"}
           /\ ~Truthy(last.req.image) /\ ~Truthy(last.req.image_path))
           => (last.resp.status = 400 /\ handle[last.svc] = last.before)

C17_Witness ==
    /\ last.endpoint = "segment" /\ last.before = "mock"
    /\ last.req.image = "none" /\ last.req.image_path = "missing"
    /\ last.resp.status = 404

\* C18: in mock state every /detect request with an existing image path or
\* a decodable base64 image gets the six mock elements and count = 6,
\* whatever the image and conf_threshold.
C18_MockDetections ==
    (/\ last.endpoint = "detect" /\ handle["detector"] = "mock"
     /\ \/ last.req.image = "valid"
        \/ ~Truthy(last.req.image) /\ last.req.image_path \in {"valid", "corrupt"})
    => /\ last.resp.status = 200
       /\ last.resp.body.count = 6
       /\ Len(last.resp.body.detections) = 6
       /\ [k \in 1..6 |-> last.resp.body.detections[k].text]
              = <<"SPIN", "+", "-", "DEAL", "HIT", "STAND">>
       /\ [k \in 1..6 |-> last.resp.body.detections[k].id]
              = <<"el_01", "el_02", "el_03", "el_04", "el_05", "el_06">>

C18_Witness ==
    /\ last.endpoint = "detect" /\ last.before = "mock"
    /\ last.req.image = "none" /\ last.req.image_path = "corrupt"
    /\ last.req.conf_threshold = 90
    /\ last.resp.body.count = 6

\* a request that reaches get_model
NeedsModel(l) ==
    \/ l.endpoint = "info"
    \/ l.endpoint \in {"detect", "segment"} /\ ImageAtHand(l.req) = 0
    \/ l.endpoint = "embed" /\ l.req.image_path \in {"valid", "corrupt"}

\* C19: the handle of a service leaves "unloaded" on the first request
\* that needs the model, for "loaded" or "mock", and never changes again;
\* the load is attempted at most once and a failed load is not retried.
C19_LoadOnce ==
    [][\A svc \in Services :
          /\ handle[svc] # "unloaded"
                => (handle'[svc] = handle[svc] /\ loads'[svc] = loads[svc])
          /\ loads'[svc] <= 1
          /\ (handle'[svc] = "unloaded") = (loads'[svc] = 0)
          /\ (handle[svc] = "unloaded" /\ last'.svc = svc /\ nreq' # nreq)
                => (handle'[svc] # "unloaded") = NeedsModel(last')]_vars

C19_Witness ==
    /\ last.svc = "detector" /\ last.endpoint = "detect"
    /\ last.before = "mock" /\ handle["detector"] = "mock"
    /\ loads["detector"] = 1 /\ nreq = MaxRequests
    /\ last.resp.status = 200

\* C20: the click point of /segment is the centroid of the chosen mask when
\* it has pixels; when there are none it is the centre of the bounding box
\* of the request if there is one, else the centre of the image, in every
\* model state.
C20_ClickPointFallback ==
    (last.endpoint = "segment" /\ last.resp.status = 200)
    => LET mask == IF handle["sam3"] = "loaded" THEN last.model_out ELSE {}
           box == last.req.coarse_bbox
           click == last.resp.body.click_point
       IN  IF mask # {}
           THEN click.x = MeanOf(mask, 1) /\ click.y = MeanOf(mask, 2)
           ELSE IF box.given
           THEN click.x = box.x + box.w \div 2 /\ click.y = box.y + box.h \div 2
           ELSE click.x = last.req.dims[1] \div 2
                /\ click.y = last.req.dims[2] \div 2

\* the last request was a /detect answered by a loaded model
RealDetect ==
    /\ last.endpoint = "detect" /\ last.resp.status = 200
    /\ last.resp.body.kind = "real"

\* the boxes the model returned for the last /detect, and its class names
LastBoxes == SelectSeq(last.model_out.boxes,
                       LAMBDA b : b.conf > last.req.conf_threshold)
LastNames == ModelNames[last.model_out.names]
Generic(names) ==
    \A id \in DOMAIN names :
        ~Contains(k_button, Lower(names[id])) /\ ~Contains(k_card, Lower(names[id]))
ClassName(names, box) == IF box.cls \in DOMAIN names THEN names[box.cls] ELSE s_unknown
\* the listed elements made from box j (0-based in the id)
ListedFrom(j) ==
    {k \in 1..Len(last.resp.body.detections) :
        last.resp.body.detections[k].id = ElementId(0, j - 1)}

\* C25: with a generic model (no class name containing "button" or "card")
\* a detection of class "person" produces no element, every other listed
\* detection has its type from UI_TYPE_MAPPING ("button" when its class is
\* not in the table), and no element carries a POKER_CLASSES name.
C25_GenericModelTypes ==
    (RealDetect /\ Generic(LastNames))
    => \A j \in 1..Len(LastBoxes) :
          LET name == ClassName(LastNames, LastBoxes[j]) IN
          /\ name = s_person => ListedFrom(j) = {}
          /\ \A k \in ListedFrom(j) :
                LET e == last.resp.body.detections[k] IN
                /\ e.type = (IF name \in DOMAIN UI_TYPE_MAPPING
                             THEN UI_TYPE_MAPPING[name] ELSE "button")
                /\ \A id \in DOMAIN POKER_CLASSES : e.text # POKER_CLASSES[id]

\* C28: /health reports model_loaded = true exactly when the handle of the
\* service is in the loaded state: false before the first load, false in
\* mock mode.
C28_HealthReportsLoaded ==
    last.endpoint = "health"
    => (last.resp.body.model_loaded = (handle[last.svc] = "loaded"))

\* C29: once a /detect or /segment handler has finished, the temporary
\* file made for the base64 image of the request no longer exists, whether
\* the answer is a real result, the mock payload or an HTTP error.
C29_TempFileRemoved ==
    /\ (last.endpoint \in {"detect", "segment"} /\ Truthy(last.req.image))
           => last.temp \notin tmpdir
    /\ tmpdir = {}

C29_Witness ==
    /\ last.endpoint = "segment" /\ last.req.image = "unsavable"
    /\ last.temp # 0 /\ last.resp.status = 500 /\ nreq = MaxRequests

\* C30: a successful /detect answer has count = the number of elements
\* listed; with a real model the elements are in non-increasing order of
\* confidence, at most 20, and no detection left out by the limit has a
\* higher confidence than a listed one.
C30_CountAndTopTwenty ==
    (last.endpoint = "detect" /\ last.resp.status = 200)
    => LET dets == last.resp.body.detections IN
       /\ last.resp.body.count = Len(dets)
       /\ RealDetect =>
            /\ Len(dets) <= 20
            /\ \A k \in 1..(Len(dets) - 1) :
                  dets[k].confidence >= dets[k + 1].confidence
            /\ \A j \in 1..Len(LastBoxes) :
                  (ListedFrom(j) = {}
                      /\ NameAndType(LastNames, is_poker_model(LastNames),
                                     LastBoxes[j]).ui_type # NoType)
                  => \A k \in 1..Len(dets) :
                        LastBoxes[j].conf <= dets[k].confidence

C30_Witness ==
    /\ RealDetect /\ last.model_out.boxes = ManyBoxes
    /\ last.req.conf_threshold = 30
    /\ last.resp.body.count = 20
    /\ \E j \in 1..Len(LastBoxes) : ListedFrom(j) = {}

-----------------------------------------------------------------------------
(* Properties of the parsers on fenced responses *)

\* C12: a response made of prose, a JSON array of detection objects in a
\* fenced code block, and more prose is parsed to exactly the objects of
\* the array, in order and with equal contents.
C12_FencedArrayExtracted ==
    \A pre \in Prose, post \in Prose, arr \in DetectionArrays :
        (ppc \in {"vlm", "llm"} /\ presp = Fenced(pre, arr, post))
            => (pres.st = "return" /\ pres.val = json_loads(arr).val)

=============================================================================
